---------------------------- MODULE Spec2Model ----------------------------
(***************************************************************************)
(* A model of the Twenty Questions agent of src/agents.py (LLMAgent and    *)
(* EIGAgent) and of the game loop of src/fixed_game_loop.py.               *)
(*                                                                         *)
(* Floating-point values are modelled as exact rationals n/d together with *)
(* the value NaN; np.log2 is evaluated in fixed point (see log2).  The     *)
(* language model behind openrouter_agent / sampling_agent and the game    *)
(* environment are external: their replies are nondeterministic choices    *)
(* from small sets.                                                        *)
(***************************************************************************)
EXTENDS Integers, Sequences, FiniteSets, TLC

VARIABLES
    \* ---- run_single_game (src/fixed_game_loop.py) ----
    agent_type,         \* "LLM" or "EIG"
    env_kind,           \* how the environment records an action in its observations
    all_observations,   \* the history handed to the agent: a sequence of entries
    done,               \* the environment's end-of-game flag
    turn_count,         \* completed turns
    game_error,         \* TRUE once run_single_game's except branch has run
    \* ---- LLMAgent.__call__ and the calls it makes (src/agents.py) ----
    pc,                 \* control location
    attempt,            \* the loop variable `_` of the retry loop being run
    remaining_questions,
    decision,           \* the value returned by decision(), "none" before
    action,             \* the value returned by __call__, "none" before
    move_calls,         \* invocations of move() in the current turn
    question_calls,     \* invocations of question() in the current turn
    questions_emitted,  \* question actions handed to env.step so far
    \* ---- EIGAgent.question ----
    cycle,              \* the loop variable `_` of question()'s outer loop
    samples,            \* the candidate pool of the cycle (a list)
    questions,          \* the batch of questions of the cycle (a list)
    workers,            \* one process_question task per question of the batch
    completed,          \* the tasks that have ended, in the order they ended
    question_list,      \* the (question, eig) pairs, in batch order
    consistency_dict,   \* the ConsistencyMap being scored
    best_question,      \* the selected question, "none" before
    \* ---- pure functions under test ----
    p_in,               \* argument of binary_entropy
    eig,                \* the value returned by binary_entropy / _calculate_eig
    entropy_calls,      \* binary_entropy calls made by the function applied
    entropy_arg,        \* argument of the first of them
    \* ---- one call of the language model, with its retry loop ----
    site,               \* the function that makes the call
    prompt,             \* the prompt the function built before its loop
    sent,               \* the prompts sent so far, one per attempt
    received,           \* the replies received so far, one per attempt
    result,             \* the value the function returned, "none" before
    experiment,         \* run_parallel_experiments: its arguments and position
    game_configs,       \* the configurations built from the arguments
    futures,            \* one run_single_game task per configuration
    heap,               \* the objects the games have constructed
    game_results,       \* the results collected so far
    belief,             \* persistent mode: the weight of each candidate
    belief_op           \* persistent mode: the last operation and its inputs

vars == << agent_type, env_kind, all_observations, done, turn_count, game_error,
           pc, attempt, remaining_questions, decision, action, move_calls,
           question_calls, questions_emitted,
           cycle, samples, questions, workers, completed, question_list,
           consistency_dict,
           best_question, p_in, eig, entropy_calls, entropy_arg,
           site, prompt, sent, received, result,
           experiment, game_configs, futures, heap, game_results, belief, belief_op >>

-----------------------------------------------------------------------------
(* Bounds of the model.                                                    *)

\* Longest candidate pool the sampling oracle returns.
MaxPool == 4
\* Longest question batch the oracle returns / longest list that is ranked.
MaxBatch == 3
\* Largest denominator of the probabilities handed to binary_entropy.
MaxDen == 8
\* Turns after which the modelled game is cut off.
MaxTurns == 22

-----------------------------------------------------------------------------
(* Floating-point values: NaN, or the rational n/d in lowest terms, d > 0. *)

RECURSIVE GCD(_, _)
GCD(a, b) == IF b = 0 THEN a ELSE GCD(b, a % b)

Abs(x) == IF x < 0 THEN -x ELSE x

NaN == [nan |-> TRUE, n |-> 0, d |-> 1]

Rat(n, d) ==
    LET s == IF d < 0 THEN -1 ELSE 1
        g == GCD(Abs(n), Abs(d))
    IN  [nan |-> FALSE, n |-> (s * n) \div g, d |-> (s * d) \div g]

Zero == Rat(0, 1)
One == Rat(1, 1)

LCM(a, b) == (a \div GCD(a, b)) * b

\* x < y on floats: False whenever an operand is NaN.
FLt(x, y) ==
    /\ ~x.nan
    /\ ~y.nan
    /\ LET l == LCM(x.d, y.d) IN x.n * (l \div x.d) < y.n * (l \div y.d)

\* x == y on floats: False whenever an operand is NaN.
FEq(x, y) == ~x.nan /\ ~y.nan /\ x.n = y.n /\ x.d = y.d

FNeg(x) == IF x.nan THEN NaN ELSE Rat(-x.n, x.d)

FAdd(x, y) ==
    IF x.nan \/ y.nan THEN NaN
    ELSE LET l == LCM(x.d, y.d)
         IN  Rat(x.n * (l \div x.d) + y.n * (l \div y.d), l)

FSub(x, y) == FAdd(x, FNeg(y))

FMul(x, y) ==
    IF x.nan \/ y.nan THEN NaN
    ELSE LET g1 == GCD(Abs(x.n), y.d)
             g2 == GCD(Abs(y.n), x.d)
         IN  Rat((x.n \div g1) * (y.n \div g2), (x.d \div g2) * (y.d \div g1))

FDiv(x, y) ==
    IF x.nan \/ y.nan THEN NaN ELSE FMul(x, Rat(y.d, y.n))

-----------------------------------------------------------------------------
(* np.log2 in fixed point: LOG2_SCALE units per 1, the mantissa kept to    *)
(* MANT_BITS bits while the fraction is extracted bit by bit by squaring.  *)

MANT_BITS == 14
LOG2_BITS == 12
LOG2_SCALE == 2 ^ LOG2_BITS

\* The exponent e with 2^e <= n/d < 2^(e+1), and n/d scaled into [1, 2).
RECURSIVE Normalise(_, _, _)
Normalise(n, d, e) ==
    IF n >= 2 * d THEN Normalise(n, 2 * d, e + 1)
    ELSE IF n < d THEN Normalise(2 * n, d, e - 1)
    ELSE [n |-> n, d |-> d, e |-> e]

RECURSIVE FractionBits(_, _, _)
FractionBits(m, i, r) ==
    IF i = LOG2_BITS THEN r
    ELSE LET sq == (m * m) \div (2 ^ MANT_BITS)
         IN  IF sq >= 2 ^ (MANT_BITS + 1)
             THEN FractionBits(sq \div 2, i + 1, 2 * r + 1)
             ELSE FractionBits(sq, i + 1, 2 * r)

\* log2 of a positive float.
log2(x) ==
    IF x.nan \/ x.n <= 0 THEN NaN
    ELSE LET nm == Normalise(x.n, x.d, 0)
             m  == (nm.n * (2 ^ MANT_BITS)) \div nm.d
         IN  Rat(nm.e * LOG2_SCALE + FractionBits(m, 0, 0), LOG2_SCALE)

-----------------------------------------------------------------------------
(* binary_entropy (src/agents.py 19-29).                                   *)

\* Mutant of binary_entropy: the (1 - p) term is left out.
binary_entropy_one_term(p) ==
    IF FLt(p, Zero) \/ FLt(One, p) THEN NaN
    ELSE IF FEq(p, Zero) \/ FEq(p, One) THEN Zero
    ELSE FMul(FNeg(p), log2(p))

binary_entropy(p) ==
    IF FLt(p, Zero) \/ FLt(One, p) THEN NaN
    ELSE IF FEq(p, Zero) \/ FEq(p, One) THEN Zero
    ELSE FSub(FMul(FNeg(p), log2(p)),
              FMul(FSub(One, p), log2(FSub(One, p))))

-----------------------------------------------------------------------------
(* EIGAgent._calculate_eig (src/agents.py 192-215).                        *)

\* EPSILON = 0.1, the noise parameter for answers.
EPSILON == Rat(1, 10)

\* Mutant of eig_count: an answer that is neither "yes" nor "no" is skipped.
RECURSIVE eig_count_skips_invalid(_, _, _, _)
eig_count_skips_invalid(cd, pool, i, results) ==
    IF i > Len(pool) THEN [returned |-> FALSE, results |-> results]
    ELSE LET obj == pool[i]
             answer == IF obj \in DOMAIN cd THEN cd[obj] ELSE "absent"
         IN  eig_count_skips_invalid(cd, pool, i + 1,
                 IF answer = "yes" THEN [results EXCEPT !.yes = @ + 1]
                 ELSE IF answer = "no" THEN [results EXCEPT !.no = @ + 1]
                 ELSE results)

\* Mutant of eig_count: a candidate absent from the map counts as "no".
RECURSIVE eig_count_absent_is_no(_, _, _, _)
eig_count_absent_is_no(cd, pool, i, results) ==
    IF i > Len(pool) THEN [returned |-> FALSE, results |-> results]
    ELSE LET obj == pool[i]
             answer == IF obj \in DOMAIN cd THEN cd[obj] ELSE "no"
         IN  IF answer = "yes"
             THEN eig_count_absent_is_no(cd, pool, i + 1,
                                         [results EXCEPT !.yes = @ + 1])
             ELSE IF answer = "no"
             THEN eig_count_absent_is_no(cd, pool, i + 1,
                                         [results EXCEPT !.no = @ + 1])
             ELSE [returned |-> TRUE, results |-> results]

\* The loop over samples: the yes/no counts, or an early return of NaN at
\* the first candidate of the pool whose answer is neither "yes" nor "no".
RECURSIVE eig_count(_, _, _, _)
eig_count(cd, pool, i, results) ==
    IF i > Len(pool) THEN [returned |-> FALSE, results |-> results]
    ELSE LET obj == pool[i]
         IN  IF obj \in DOMAIN cd
             THEN LET answer == cd[obj]
                  IN  IF answer = "yes"
                      THEN eig_count(cd, pool, i + 1,
                                     [results EXCEPT !.yes = @ + 1])
                      ELSE IF answer = "no"
                      THEN eig_count(cd, pool, i + 1,
                                     [results EXCEPT !.no = @ + 1])
                      ELSE [returned |-> TRUE, results |-> results]
             ELSE eig_count(cd, pool, i + 1, results)

\* Mutant of calculate_eig_run: the zero score needs both counts to be zero.
calculate_eig_run_all_zero(cd, pool) ==
    LET c == eig_count(cd, pool, 1, [yes |-> 0, no |-> 0])
    IN  IF c.returned
        THEN [value |-> NaN, arg |-> NaN, entropy_calls |-> 0,
              results |-> c.results]
        ELSE IF c.results.yes = 0 /\ c.results.no = 0
        THEN [value |-> Zero, arg |-> NaN, entropy_calls |-> 0,
              results |-> c.results]
        ELSE LET total_count == c.results.yes + c.results.no
                 p_true == FDiv(Rat(c.results.yes, 1), Rat(total_count, 1))
                 arg == FAdd(EPSILON,
                             FMul(FSub(One, FMul(Rat(2, 1), EPSILON)), p_true))
             IN  [value |-> FSub(binary_entropy(arg), binary_entropy(EPSILON)),
                  arg |-> arg, entropy_calls |-> 2, results |-> c.results]

\* Mutant of calculate_eig_run: the noise transform scales by 1 - EPSILON.
calculate_eig_run_single_eps(cd, pool) ==
    LET c == eig_count(cd, pool, 1, [yes |-> 0, no |-> 0])
    IN  IF c.returned
        THEN [value |-> NaN, arg |-> NaN, entropy_calls |-> 0,
              results |-> c.results]
        ELSE IF c.results.yes = 0 \/ c.results.no = 0
        THEN [value |-> Zero, arg |-> NaN, entropy_calls |-> 0,
              results |-> c.results]
        ELSE LET total_count == c.results.yes + c.results.no
                 p_true == FDiv(Rat(c.results.yes, 1), Rat(total_count, 1))
                 arg == FAdd(EPSILON, FMul(FSub(One, EPSILON), p_true))
             IN  [value |-> FSub(binary_entropy(arg), binary_entropy(EPSILON)),
                  arg |-> arg, entropy_calls |-> 2, results |-> c.results]

\* Mutant of calculate_eig_run: the two entropies are subtracted the other
\* way round.
calculate_eig_run_swapped(cd, pool) ==
    LET c == eig_count(cd, pool, 1, [yes |-> 0, no |-> 0])
    IN  IF c.returned
        THEN [value |-> NaN, arg |-> NaN, entropy_calls |-> 0,
              results |-> c.results]
        ELSE IF c.results.yes = 0 \/ c.results.no = 0
        THEN [value |-> Zero, arg |-> NaN, entropy_calls |-> 0,
              results |-> c.results]
        ELSE LET total_count == c.results.yes + c.results.no
                 p_true == FDiv(Rat(c.results.yes, 1), Rat(total_count, 1))
                 arg == FAdd(EPSILON,
                             FMul(FSub(One, FMul(Rat(2, 1), EPSILON)), p_true))
             IN  [value |-> FSub(binary_entropy(EPSILON), binary_entropy(arg)),
                  arg |-> arg, entropy_calls |-> 2, results |-> c.results]

\* One run of _calculate_eig: the value returned, the argument passed to the
\* first binary_entropy call (NaN when none is made) and the number of
\* binary_entropy calls made.
calculate_eig_run(cd, pool) ==
    LET c == eig_count(cd, pool, 1, [yes |-> 0, no |-> 0])
    IN  IF c.returned
        THEN [value |-> NaN, arg |-> NaN, entropy_calls |-> 0,
              results |-> c.results]
        ELSE IF c.results.yes = 0 \/ c.results.no = 0
        THEN [value |-> Zero, arg |-> NaN, entropy_calls |-> 0,
              results |-> c.results]
        ELSE LET total_count == c.results.yes + c.results.no
                 p_true == FDiv(Rat(c.results.yes, 1), Rat(total_count, 1))
                 arg == FAdd(EPSILON,
                             FMul(FSub(One, FMul(Rat(2, 1), EPSILON)), p_true))
             IN  [value |-> FSub(binary_entropy(arg), binary_entropy(EPSILON)),
                  arg |-> arg, entropy_calls |-> 2, results |-> c.results]

_calculate_eig(cd, pool) == calculate_eig_run(cd, pool).value

-----------------------------------------------------------------------------
(* sorted(question_list, key=lambda x: x[1], reverse=True)[0][0]           *)
(* (src/agents.py 241): CPython's list.sort for a list shorter than 64     *)
(* elements, where the whole list is one run: the list is reversed, the    *)
(* leading natural run is found (count_run) and, if strictly descending,   *)
(* reversed in place, the rest is inserted by binary insertion             *)
(* (binarysort), and the result is reversed again.  Every comparison is    *)
(* key(x) < key(y); a comparison with NaN is False.                        *)

Reverse(s) == [i \in 1..Len(s) |-> s[Len(s) + 1 - i]]

\* ISLT on (question, eig) pairs: the key is the eig.
ISLT(x, y) == FLt(x[2], y[2])

RECURSIVE run_descending(_, _)
run_descending(a, n) ==
    IF n < Len(a) /\ ISLT(a[n + 1], a[n]) THEN run_descending(a, n + 1) ELSE n

RECURSIVE run_ascending(_, _)
run_ascending(a, n) ==
    IF n < Len(a) /\ ~ISLT(a[n + 1], a[n]) THEN run_ascending(a, n + 1) ELSE n

count_run(a) ==
    IF Len(a) = 1 THEN [n |-> 1, descending |-> FALSE]
    ELSE IF ISLT(a[2], a[1])
    THEN [n |-> run_descending(a, 2), descending |-> TRUE]
    ELSE [n |-> run_ascending(a, 2), descending |-> FALSE]

\* The insertion point of pivot in a[l .. r-1].
RECURSIVE binary_search(_, _, _, _)
binary_search(a, pivot, l, r) ==
    IF l >= r THEN l
    ELSE LET p == l + ((r - l) \div 2)
         IN  IF ISLT(pivot, a[p]) THEN binary_search(a, pivot, l, p)
             ELSE binary_search(a, pivot, p + 1, r)

RECURSIVE binarysort(_, _)
binarysort(a, start) ==
    IF start > Len(a) THEN a
    ELSE LET l == binary_search(a, a[start], 1, start)
             moved == SubSeq(a, 1, l - 1) \o << a[start] >>
                      \o SubSeq(a, l, start - 1)
                      \o SubSeq(a, start + 1, Len(a))
         IN  binarysort(moved, start + 1)

list_sort(a, reverse) ==
    LET a0 == IF reverse THEN Reverse(a) ELSE a
        run == count_run(a0)
        a1 == IF run.descending
              THEN Reverse(SubSeq(a0, 1, run.n)) \o SubSeq(a0, run.n + 1, Len(a0))
              ELSE a0
        a2 == IF Len(a0) < 2 THEN a0 ELSE binarysort(a1, run.n + 1)
    IN  IF reverse THEN Reverse(a2) ELSE a2

\* Mutant of select_best: the list is sorted ascending and its last pair taken.
select_best_ascending_last(ql) == list_sort(ql, FALSE)[Len(ql)][1]

\* The question selected from a non-empty list of (question, eig) pairs.
select_best(ql) == list_sort(ql, TRUE)[1][1]

-----------------------------------------------------------------------------
(* Strings the code inspects are sequences of one-character strings.       *)

WHITESPACE == {" ", "\n", "\t"}

\* str.lower on the characters of the model's alphabet.
lower_char(c) ==
    CASE c = "A" -> "a"
      [] c = "C" -> "c"
      [] c = "G" -> "g"
      [] c = "Q" -> "q"
      [] OTHER -> c

lower(s) == [i \in 1..Len(s) |-> lower_char(s[i])]

RECURSIVE lstrip(_)
lstrip(s) ==
    IF Len(s) > 0 /\ Head(s) \in WHITESPACE THEN lstrip(Tail(s)) ELSE s

RECURSIVE rstrip(_)
rstrip(s) ==
    IF Len(s) > 0 /\ s[Len(s)] \in WHITESPACE
    THEN rstrip(SubSeq(s, 1, Len(s) - 1)) ELSE s

strip(s) == rstrip(lstrip(s))

\* DecisionType (src/agents.py 15-17).
QUESTION == << "q", "u", "e", "s", "t", "i", "o", "n" >>
GUESS == << "g", "u", "e", "s", "s" >>

\* A reply of the language model, as ANSWER_REGEX sees it: whether the
\* <answer>...</answer> region is there, and its text (group 1).
NoMatch == [match |-> FALSE, group |-> << >>]
Match(text) == [match |-> TRUE, group |-> text]

-----------------------------------------------------------------------------
(* The history (src/agents.py 13, 37-51).                                  *)

GAME_ID == -1
PLAYER_ID == 0

\* player_dict = {-1: "GAME", 0: "PLAYER"}
player_dict ==
    (GAME_ID :> << "G", "A", "M", "E" >>)
    @@ (PLAYER_ID :> << "P", "L", "A", "Y", "E", "R" >>)

Entry(player, message) == [player |-> player, message |-> message]

\* Mutant of format_history: each entry is put in front of the text so far.
RECURSIVE format_history_newest_first(_)
format_history_newest_first(history) ==
    IF history = << >> THEN [ok |-> TRUE, text |-> << >>]
    ELSE LET entry == Head(history)
             rest == format_history_newest_first(Tail(history))
         IN  IF entry.player \notin DOMAIN player_dict \/ ~rest.ok
             THEN [ok |-> FALSE, text |-> << >>]
             ELSE [ok |-> TRUE,
                   text |-> rest.text \o << "[" >> \o player_dict[entry.player]
                            \o << "]", " " >> \o entry.message \o << "\n" >>]

\* format_history: one line "[LABEL] message\n" per entry, in order; a
\* speaker outside player_dict raises KeyError (ok = FALSE).
RECURSIVE format_history(_)
format_history(history) ==
    IF history = << >> THEN [ok |-> TRUE, text |-> << >>]
    ELSE LET entry == Head(history)
             rest == format_history(Tail(history))
         IN  IF entry.player \notin DOMAIN player_dict \/ ~rest.ok
             THEN [ok |-> FALSE, text |-> << >>]
             ELSE [ok |-> TRUE,
                   text |-> << "[" >> \o player_dict[entry.player]
                            \o << "]", " " >> \o entry.message \o << "\n" >>
                            \o rest.text]

\* The question budget of a game (the literal 20 of __call__).
MAX_QUESTIONS == 20

\* player_questions = len([entry for entry in game_history if entry["player"] == 0])
player_questions(game_history) ==
    Len(SelectSeq(game_history, LAMBDA entry : entry.player = PLAYER_ID))

Max(a, b) == IF a > b THEN a ELSE b

\* Mutant of remaining: every entry of the history is counted.
remaining_counts_every_entry(game_history) ==
    Max(0, MAX_QUESTIONS - Len(game_history))

\* Mutant of remaining: the budget is one too large.
remaining_off_by_one(game_history) ==
    Max(0, MAX_QUESTIONS + 1 - player_questions(game_history))

\* remaining_questions = max(0, 20 - player_questions)
remaining(game_history) ==
    Max(0, MAX_QUESTIONS - player_questions(game_history))

\* Mutant of guess_branch: an exhausted budget does not force the guess.
guess_branch_ignores_budget(d, rq) == d = GUESS

\* Mutant of guess_branch: the decision is compared with the wrong word.
guess_branch_wrong_word(d, rq) == d = QUESTION \/ rq = 0

\* The test of __call__ that sends the turn to move() rather than question().
guess_branch(d, rq) == d = GUESS \/ rq = 0

-----------------------------------------------------------------------------
(* Replies of the language model and their parsing.                        *)

\* Python's None: no string of the model equals it.
None == << "None" >>

\* decision(): match.group(1).strip().lower() compared with the two
\* decision words; None when the reply does not parse.
parse_decision(response) ==
    IF response.match
    THEN LET d == lower(strip(response.group))
         IN  IF d = QUESTION THEN QUESTION
             ELSE IF d = GUESS THEN GUESS
             ELSE None
    ELSE None

startswith(s, c) == Len(s) > 0 /\ s[1] = c
endswith(s, c) == Len(s) > 0 /\ s[Len(s)] = c

\* move(): the stripped answer, wrapped in brackets unless it starts with
\* '[' and ends with ']'.
wrap_move(group) ==
    LET answer == strip(group)
    IN  IF ~(startswith(answer, "[") /\ endswith(answer, "]"))
        THEN << "[" >> \o answer \o << "]" >>
        ELSE answer

\* The text of an answer region that should hold a dictionary: kind says
\* which parser accepts it (json.loads, only ast.literal_eval, or neither;
\* "json_other" is valid JSON that is not an object), dict is the parsed
\* dictionary: a function from its keys to its values.
Doc(kind, dict) == [kind |-> kind, dict |-> dict]

\* json.loads, then ast.literal_eval on JSONDecodeError, then .values():
\* the values in the dictionary's order, or ok = FALSE when an exception is
\* caught and the attempt counts as failed.
parse_values(response) ==
    IF response.match /\ response.group.kind \in {"json_dict", "py_dict"}
    THEN [ok |-> TRUE, values |-> response.group.dict]
    ELSE [ok |-> FALSE, values |-> << >>]

\* samples = [obj.lower().strip() for obj in samples_dict.values()]
canonical_samples(values) == [i \in 1..Len(values) |-> strip(lower(values[i]))]

\* questions = [q.strip() for q in questions_dict.values()]
stripped_questions(values) == [i \in 1..Len(values) |-> strip(values[i])]

\* _get_consistency_dict: whatever json.loads or ast.literal_eval gives is
\* returned as it is, also when it is not a dictionary (mapping = FALSE).
parse_dict(response) ==
    IF response.match
       /\ response.group.kind \in {"json_dict", "py_dict", "json_other"}
    THEN [ok |-> TRUE, mapping |-> response.group.kind # "json_other",
          dict |-> response.group.dict]
    ELSE [ok |-> FALSE, mapping |-> FALSE, dict |-> << >>]

\* max_retries of each retry loop.
DECISION_MAX_RETRIES == 10
QUESTION_MAX_RETRIES == 10
MOVE_MAX_RETRIES == 10
SAMPLES_MAX_RETRIES == 10
CONSISTENCY_MAX_RETRIES == 10
EIG_QUESTION_MAX_RETRIES == 5

-----------------------------------------------------------------------------
(* The external parties of a game: the replies the language model may give *)
(* and the observations the environment may return.                        *)

apple == << "a", "p", "p", "l", "e" >>
car == << "c", "a", "r" >>
banana == << "b", "a", "n", "a", "n", "a" >>
Q1 == << "Q", "1" >>
Q2 == << "Q", "2" >>

DecisionReplies ==
    { NoMatch, Match(QUESTION), Match(GUESS),
      Match(<< " ", "G", "u", "e", "s", "s", "\n" >>),
      Match(<< "m", "a", "y", "b", "e" >>) }

MoveReplies ==
    { NoMatch, Match(car), Match(<< "[" >> \o car \o << "]" >>),
      Match(<< " ", "[" >> \o car), Match(car \o << "]", " " >>) }

QuestionReplies == { NoMatch, Match(Q1), Match(<< " " >> \o Q2 \o << " " >>) }

SampleReplies ==
    { NoMatch,
      Match(Doc("garbage", << >>)),
      Match(Doc("json_other", << >>)),
      Match(Doc("json_dict", << >>)),
      Match(Doc("json_dict", << << "A" >> \o Tail(apple) \o << " " >>, car >>)),
      Match(Doc("py_dict", << apple, car >>)) }

BatchReplies ==
    { NoMatch,
      Match(Doc("garbage", << >>)),
      Match(Doc("json_dict", << >>)),
      Match(Doc("json_dict", << Q1 >>)),
      Match(Doc("py_dict", << << " " >> \o Q2 >>)) }

ConsistencyReplies ==
    { NoMatch,
      Match(Doc("garbage", << >>)),
      Match(Doc("json_dict", (apple :> "yes") @@ (car :> "no"))),
      Match(Doc("json_dict", (apple :> "no") @@ (car :> "no"))),
      Match(Doc("py_dict", (apple :> "yes") @@ (car :> "maybe"))) }

\* Messages of the environment; their text is opaque to the agent.
PROMPT == << "p" >>
ECHO == << "e" >>
ANSWER == << "y" >>

\* How the environment records an agent action in the observations of the
\* next turn: once ("echo"), not at all ("silent") or twice ("double").
EnvKinds == { "echo", "silent", "double" }

\* env.get_observation(): the entries that are new since the last call.
Observation(kind, turn) ==
    IF turn = 0 THEN << Entry(GAME_ID, PROMPT) >>
    ELSE CASE kind = "echo" ->
                  << Entry(PLAYER_ID, ECHO), Entry(GAME_ID, ANSWER) >>
           [] kind = "silent" -> << Entry(GAME_ID, ANSWER) >>
           [] kind = "double" ->
                  << Entry(PLAYER_ID, ECHO), Entry(PLAYER_ID, ECHO),
                     Entry(GAME_ID, ANSWER) >>

-----------------------------------------------------------------------------
(* run_single_game and the agent's turn.                                   *)

setupVars == << agent_type, env_kind >>
loopVars == << all_observations, done, turn_count >>
turnVars == << remaining_questions, decision, action, move_calls, question_calls >>
tallyVars == << questions_emitted >>
eigVars ==
    << cycle, samples, questions, workers, completed, question_list, best_question >>
pureVars == << consistency_dict, p_in, eig, entropy_calls, entropy_arg >>
callVars == << site, prompt, sent, received, result >>
harnessVars == << experiment, game_configs, futures, heap, game_results >>
beliefVars == << belief, belief_op >>

\* The state before a game has started and before any function is applied.
IdleAgent ==
    /\ done = FALSE
    /\ turn_count = 0
    /\ game_error = FALSE
    /\ attempt = 0
    /\ remaining_questions = MAX_QUESTIONS
    /\ decision = None
    /\ action = None
    /\ move_calls = 0
    /\ question_calls = 0
    /\ questions_emitted = 0
    /\ cycle = 0
    /\ workers = << >>
    /\ completed = << >>
    /\ questions = << >>
    /\ best_question = None
    /\ eig = Zero
    /\ entropy_calls = 0
    /\ entropy_arg = NaN
    /\ sent = << >>
    /\ received = << >>
    /\ result = None

\* The same, with no history collected yet.
Idle ==
    /\ all_observations = << >>
    /\ IdleAgent

\* No single call is followed: a whole game or a pure function is run.
NoCall ==
    /\ site = "none"
    /\ prompt = None

\* run_parallel_experiments has not been called.
NoHarness ==
    /\ experiment = None
    /\ game_configs = << >>
    /\ futures = << >>
    /\ heap = << >>
    /\ game_results = << >>

\* No persistent pool is held.
NoBelief ==
    /\ belief = << >>
    /\ belief_op = None

Init ==
    /\ Idle
    /\ NoHarness
    /\ NoBelief
    /\ NoCall
    /\ agent_type \in { "LLM", "EIG" }
    /\ env_kind \in EnvKinds
    /\ pc = "loop"
    /\ samples = << >>
    /\ question_list = << >>
    /\ consistency_dict = << >>
    /\ p_in = Zero

\* Mutant of Raise: the failure is swallowed and the turn goes on to move().
RaiseDefaultsToMove ==
    /\ pc' = "move"
    /\ game_error' = game_error

\* An exception leaves the agent and is caught by run_single_game's except
\* branch: the game ends with an error record, env.step is not called.
Raise ==
    /\ pc' = "failed"
    /\ game_error' = TRUE

\* The while loop's next iteration up to the agent's first request:
\* the new observations are appended and __call__ computes the budget.
GameTurn ==
    /\ pc = "loop"
    /\ ~done
    /\ turn_count < MaxTurns
    /\ LET history == all_observations \o Observation(env_kind, turn_count)
       IN  /\ all_observations' = history
           /\ IF format_history(history).ok
              THEN /\ remaining_questions' = remaining(history)
                   /\ pc' = "decision"
                   /\ UNCHANGED game_error
              ELSE /\ Raise
                   /\ UNCHANGED remaining_questions
    /\ UNCHANGED << setupVars, callVars, harnessVars, beliefVars,
                    done, turn_count, attempt, decision, action,
                    move_calls, question_calls, tallyVars, eigVars, pureVars >>

\* __call__ after decision() has returned d: move() or question() is called.
Dispatch(d) ==
    /\ decision' = d
    /\ attempt' = 0
    /\ IF guess_branch(d, remaining_questions)
       THEN /\ pc' = "move"
            /\ move_calls' = move_calls + 1
            /\ UNCHANGED << question_calls, cycle >>
       ELSE /\ question_calls' = question_calls + 1
            /\ UNCHANGED move_calls
            /\ IF agent_type = "LLM"
               THEN pc' = "question" /\ UNCHANGED cycle
               ELSE pc' = "eig_samples" /\ cycle' = 0

\* Mutant of retry_again: the loop runs once more.
retry_again_off_by_one(failed, max_retries) == failed + 1 <= max_retries

\* for _ in range(max_retries): after the attempt numbered `failed` has
\* failed, is there another iteration?
retry_again(failed, max_retries) == failed + 1 < max_retries

\* A failed attempt of a retry loop that raises once max_retries attempts
\* have failed.
RetryOrRaise(max_retries) ==
    IF retry_again(attempt, max_retries)
    THEN /\ attempt' = attempt + 1
         /\ UNCHANGED << pc, game_error >>
    ELSE /\ Raise
         /\ UNCHANGED attempt

\* One iteration of decision()'s retry loop.
DecisionAttempt ==
    /\ pc = "decision"
    /\ attempt < DECISION_MAX_RETRIES
    /\ \E response \in DecisionReplies :
         LET d == parse_decision(response)
         IN  IF d # None
             THEN /\ Dispatch(d)
                  /\ UNCHANGED game_error
             ELSE /\ RetryOrRaise(DECISION_MAX_RETRIES)
                  /\ UNCHANGED << decision, move_calls, question_calls, cycle >>
    /\ UNCHANGED << setupVars, callVars, harnessVars, beliefVars,
                    loopVars, remaining_questions, action, tallyVars,
                    samples, questions, workers, completed, question_list,
                    best_question,
                    pureVars >>

\* One iteration of move()'s retry loop; on success __call__ returns.
MoveAttempt ==
    /\ pc = "move"
    /\ attempt < MOVE_MAX_RETRIES
    /\ \E response \in MoveReplies :
         IF response.match
         THEN /\ action' = wrap_move(response.group)
              /\ pc' = "step"
              /\ UNCHANGED << attempt, game_error >>
         ELSE /\ RetryOrRaise(MOVE_MAX_RETRIES)
              /\ UNCHANGED action
    /\ UNCHANGED << setupVars, callVars, harnessVars, beliefVars,
                    loopVars, remaining_questions, decision,
                    move_calls, question_calls, tallyVars, eigVars, pureVars >>

\* One iteration of LLMAgent.question()'s retry loop.
QuestionAttempt ==
    /\ pc = "question"
    /\ attempt < QUESTION_MAX_RETRIES
    /\ \E response \in QuestionReplies :
         IF response.match
         THEN /\ action' = strip(response.group)
              /\ pc' = "step"
              /\ UNCHANGED << attempt, game_error >>
         ELSE /\ RetryOrRaise(QUESTION_MAX_RETRIES)
              /\ UNCHANGED action
    /\ UNCHANGED << setupVars, callVars, harnessVars, beliefVars,
                    loopVars, remaining_questions, decision,
                    move_calls, question_calls, tallyVars, eigVars, pureVars >>

-----------------------------------------------------------------------------
(* EIGAgent.question (src/agents.py 217-244) and the calls it makes.       *)

\* One iteration of _generate_fresh_samples' retry loop; on success
\* question() goes on to _generate_batch_questions.
FreshSamplesAttempt(replies) ==
    /\ pc = "eig_samples"
    /\ attempt < SAMPLES_MAX_RETRIES
    /\ \E response \in replies :
         LET parsed == parse_values(response)
         IN  IF parsed.ok
             THEN /\ samples' = canonical_samples(parsed.values)
                  /\ pc' = "eig_batch"
                  /\ attempt' = 0
                  /\ UNCHANGED game_error
             ELSE /\ RetryOrRaise(SAMPLES_MAX_RETRIES)
                  /\ UNCHANGED samples
    /\ UNCHANGED << setupVars, callVars, harnessVars, beliefVars,
                    loopVars, turnVars, tallyVars, cycle, questions,
                    workers, completed, question_list, best_question, pureVars >>

\* The fewest threads the executor is given (the literal 4 of question()).
WORKER_FLOOR == 4

\* max_workers=max(len(questions), 4)
max_workers(batch) == Max(Len(batch), WORKER_FLOOR)

\* Mutant of submit_all: a task's retry loop has one iteration more.
submit_all_extra_attempt(batch) ==
    [i \in 1..Len(batch) |->
        [status |-> IF i <= max_workers(batch) THEN "running" ELSE "queued",
         attempt |-> -1, reply |-> parse_dict(NoMatch), eig |-> NaN]]

\* with ThreadPoolExecutor(...) as executor: executor.map(process_question,
\* questions): one task per question, all submitted at once; a task runs
\* as soon as one of the max_workers threads is free for it.
submit_all(batch) ==
    [i \in 1..Len(batch) |->
        [status |-> IF i <= max_workers(batch) THEN "running" ELSE "queued",
         attempt |-> 0, reply |-> parse_dict(NoMatch), eig |-> NaN]]

\* One iteration of _generate_batch_questions' retry loop.  The loop does
\* not raise: after max_retries failed attempts it returns [].  When it
\* returns, question() submits the batch to the executor.
BatchQuestionsAttempt(replies) ==
    /\ pc = "eig_batch"
    /\ attempt < EIG_QUESTION_MAX_RETRIES
    /\ \E response \in replies :
         LET parsed == parse_values(response)
             returns == \/ parsed.ok
                        \/ ~retry_again(attempt, EIG_QUESTION_MAX_RETRIES)
             batch == IF parsed.ok THEN stripped_questions(parsed.values)
                      ELSE << >>
         IN  IF returns
             THEN /\ questions' = batch
                  /\ workers' = submit_all(batch)
                  /\ pc' = "eig_score"
                  /\ attempt' = 0
             ELSE /\ attempt' = attempt + 1
                  /\ UNCHANGED << questions, workers, pc >>
    /\ UNCHANGED << setupVars, callVars, harnessVars, beliefVars,
                    loopVars, game_error, turnVars, tallyVars, cycle,
                    samples, completed, question_list, best_question, pureVars >>

\* A task that has returned its (question, eig) pair, and one that has ended
\* with an exception; reply is what _get_consistency_dict parsed, if it did.
TaskDone(parsed, score) ==
    [status |-> "done", attempt |-> 0, reply |-> parsed, eig |-> score]
TaskRaised(parsed) ==
    [status |-> "raised", attempt |-> 0, reply |-> parsed, eig |-> NaN]

\* Mutant of task_outcomes: a NaN score ends the task with an exception.
task_outcomes_nan_raises(parsed, pool) ==
    IF parsed.mapping /\ ~_calculate_eig(parsed.dict, pool).nan
    THEN { TaskDone(parsed, _calculate_eig(parsed.dict, pool)) }
    ELSE { TaskRaised(parsed) }

\* process_question once _get_consistency_dict has returned: the eig of the
\* question is computed and the pair returned.  When the value parsed is not
\* a dictionary, `obj in consistency_dict` or `consistency_dict[obj]` raises
\* TypeError for a candidate of the pool, or no candidate is found in it and
\* the score is 0, depending on the value.
task_outcomes(parsed, pool) ==
    IF parsed.mapping
    THEN { TaskDone(parsed, _calculate_eig(parsed.dict, pool)) }
    ELSE { TaskDone(parsed, Zero) }
         \cup (IF pool # << >> THEN { TaskRaised(parsed) } ELSE { })

\* Mutant of scored_pool: the candidates the map classifies are taken out
\* of the pool as they are counted.
scored_pool_consumed(pool, cd) == SelectSeq(pool, LAMBDA obj : obj \notin DOMAIN cd)

\* The list `samples` of question() once a task has formatted it into its
\* prompt and _calculate_eig has gone through it: `for obj in samples` and
\* `obj in consistency_dict` read, nothing is assigned to either argument.
scored_pool(pool, cd) == pool

\* One iteration of _get_consistency_dict's retry loop in the task of
\* question i; on success the task computes the eig and completes, after
\* max_retries failed attempts the task ends with the ValueError.
ConsistencyAttempt(replies) ==
    /\ pc = "eig_score"
    /\ \E i \in 1..Len(workers) :
         /\ workers[i].status = "running"
         /\ workers[i].attempt < CONSISTENCY_MAX_RETRIES
         /\ \E response \in replies :
              LET parsed == parse_dict(response)
              IN  IF parsed.ok
                  THEN \E outcome \in task_outcomes(parsed, samples) :
                          /\ workers' = [workers EXCEPT ![i] = outcome]
                          /\ completed' = Append(completed, i)
                          /\ samples' = scored_pool(samples, parsed.dict)
                  ELSE IF retry_again(workers[i].attempt, CONSISTENCY_MAX_RETRIES)
                  THEN /\ workers' = [workers EXCEPT ![i].attempt = @ + 1]
                       /\ UNCHANGED << completed, samples >>
                  ELSE /\ workers' = [workers EXCEPT ![i] = TaskRaised(parsed)]
                       /\ completed' = Append(completed, i)
                       /\ UNCHANGED samples
    /\ UNCHANGED << setupVars, callVars, harnessVars, beliefVars,
                    loopVars, game_error, pc, attempt, turnVars,
                    tallyVars, cycle, questions, question_list,
                    best_question, pureVars >>

\* Mutant of joined: the results are taken once the first task has ended.
joined_when_first_ended(tasks) ==
    IF tasks = << >> THEN TRUE ELSE tasks[1].status # "running"

\* list(executor.map(...)) has every result or an exception, and the with
\* block has been left (shutdown(wait=True)): no task is running any more.
joined(tasks) == \A i \in DOMAIN tasks : tasks[i].status # "running"

\* Mutant of task_failed: the exception of a task is swallowed.
task_failed_ignored(tasks) == FALSE

\* list(executor.map(...)) re-raises the exception of a task that ended with
\* one, when it comes to that task's result.
task_failed(tasks) == \E i \in DOMAIN tasks : tasks[i].status = "raised"

\* Mutant of collect_results: the pairs are taken as the tasks end.
collect_results_as_completed(batch, tasks, order) ==
    [k \in 1..Len(order) |-> << batch[order[k]], tasks[order[k]].eig >>]

\* question_list = list(executor.map(process_question, questions)): map
\* yields the results in the order of its input, whatever the order in which
\* the tasks ended.
collect_results(batch, tasks, order) ==
    [i \in 1..Len(batch) |-> << batch[i], tasks[i].eig >>]

\* The executor has been joined: list(executor.map(...)) raises the first
\* task's exception, or gives the (question, eig) pairs in batch order;
\* sorted(...)[0][0] raises IndexError on an empty list, or selects.
RankQuestions ==
    /\ pc = "eig_score"
    /\ joined(workers)
    /\ IF task_failed(workers)
       THEN /\ Raise
            /\ UNCHANGED << question_list, best_question, action >>
       ELSE LET ql == collect_results(questions, workers, completed)
            IN  /\ question_list' = ql
                /\ IF ql = << >>
                   THEN /\ Raise
                        /\ UNCHANGED << best_question, action >>
                   ELSE /\ best_question' = select_best(ql)
                        /\ action' = select_best(ql)
                        /\ pc' = "step"
                        /\ UNCHANGED game_error
    /\ UNCHANGED << setupVars, callVars, harnessVars, beliefVars,
                    loopVars, attempt, remaining_questions, decision,
                    move_calls, question_calls, tallyVars, cycle, samples,
                    questions, workers, completed, pureVars >>

\* Mutant of TurnLocalsCleared: the agent remembers the question it chose.
TurnLocalsKeepBest ==
    /\ attempt' = 0
    /\ decision' = None
    /\ action' = None
    /\ move_calls' = 0
    /\ question_calls' = 0
    /\ cycle' = 0
    /\ samples' = << >>
    /\ questions' = << >>
    /\ workers' = << >>
    /\ completed' = << >>
    /\ question_list' = << >>
    /\ best_question' = best_question

\* Mutant of TurnLocalsCleared: the pool of the turn is kept.
TurnLocalsKeepPool ==
    /\ attempt' = 0
    /\ decision' = None
    /\ action' = None
    /\ move_calls' = 0
    /\ question_calls' = 0
    /\ cycle' = 0
    /\ samples' = samples
    /\ questions' = << >>
    /\ workers' = << >>
    /\ completed' = << >>
    /\ question_list' = << >>
    /\ best_question' = None

\* The locals of the calls of a turn, as they are before the turn.
TurnLocalsCleared ==
    /\ attempt' = 0
    /\ decision' = None
    /\ action' = None
    /\ move_calls' = 0
    /\ question_calls' = 0
    /\ cycle' = 0
    /\ samples' = << >>
    /\ questions' = << >>
    /\ workers' = << >>
    /\ completed' = << >>
    /\ question_list' = << >>
    /\ best_question' = None

\* done, _ = env.step(action=action); turn_count += 1.  Whether the game is
\* over is the environment's decision.  The turn's locals are gone.
EnvStep ==
    /\ pc = "step"
    /\ done' \in BOOLEAN
    /\ turn_count' = turn_count + 1
    /\ questions_emitted' = questions_emitted + question_calls
    /\ pc' = "loop"
    /\ TurnLocalsCleared
    /\ UNCHANGED << setupVars, callVars, harnessVars, beliefVars,
                    all_observations, game_error,
                    remaining_questions, pureVars >>

\* Guess actions handed to env.step so far: every completed turn handed
\* over one action.
guesses_emitted == turn_count - questions_emitted

\* After the loop: env.close() and the final observations are appended.
Finish ==
    /\ pc = "loop"
    /\ done
    /\ all_observations' = all_observations \o Observation(env_kind, turn_count)
    /\ pc' = "finished"
    /\ UNCHANGED << setupVars, callVars, harnessVars, beliefVars,
                    done, turn_count, game_error, attempt, turnVars,
                    tallyVars, eigVars, pureVars >>

Next ==
    \/ GameTurn
    \/ DecisionAttempt
    \/ MoveAttempt
    \/ QuestionAttempt
    \/ FreshSamplesAttempt(SampleReplies)
    \/ BatchQuestionsAttempt(BatchReplies)
    \/ ConsistencyAttempt(ConsistencyReplies)
    \/ RankQuestions
    \/ EnvStep
    \/ Finish

Spec == Init /\ [][Next]_vars

-----------------------------------------------------------------------------
(* The pure functions, each applied once to an input drawn from a bounded  *)
(* set.                                                                    *)

Candidates == { apple, car, banana }
AnswerValues == { "yes", "no", "maybe" }

\* The ConsistencyMaps: every mapping from some candidates to answer values.
Dicts == UNION { [K -> AnswerValues] : K \in SUBSET Candidates }

\* The candidate pools: every list of at most MaxPool candidates.
Pools == UNION { [1..k -> Candidates] : k \in 0..MaxPool }

\* The arguments of binary_entropy: NaN and the fractions n/d in [-1, 2].
Probabilities ==
    { NaN } \cup { Rat(n, d) : n \in (-MaxDen)..(2 * MaxDen), d \in 1..MaxDen }

\* The scores _calculate_eig can return.
Scores == { _calculate_eig(cd, pool) : cd \in Dicts, pool \in Pools }

\* The lists handed to the ranking step: at most MaxBatch (question, eig) pairs.
QuestionLists ==
    UNION { [1..k -> { << q, e >> : q \in { Q1, Q2 }, e \in Scores }] :
            k \in 0..MaxBatch }

InitEntropy ==
    /\ Idle
    /\ NoHarness
    /\ NoBelief
    /\ NoCall
    /\ agent_type = "EIG"
    /\ env_kind = "echo"
    /\ pc = "binary_entropy"
    /\ samples = << >>
    /\ question_list = << >>
    /\ consistency_dict = << >>
    /\ p_in \in Probabilities

\* binary_entropy(p_in)
BinaryEntropyCall ==
    /\ pc = "binary_entropy"
    /\ eig' = binary_entropy(p_in)
    /\ entropy_calls' = 1
    /\ entropy_arg' = p_in
    /\ pc' = "returned"
    /\ UNCHANGED << setupVars, callVars, harnessVars, beliefVars,
                    loopVars, game_error, attempt, turnVars, tallyVars,
                    eigVars, consistency_dict, p_in >>

SpecEntropy == InitEntropy /\ [][BinaryEntropyCall]_vars

InitEig ==
    /\ Idle
    /\ NoHarness
    /\ NoBelief
    /\ NoCall
    /\ agent_type = "EIG"
    /\ env_kind = "echo"
    /\ pc = "_calculate_eig"
    /\ samples \in Pools
    /\ question_list = << >>
    /\ consistency_dict \in Dicts
    /\ p_in = Zero

\* self._calculate_eig(consistency_dict, samples)
CalculateEigCall ==
    /\ pc = "_calculate_eig"
    /\ LET run == calculate_eig_run(consistency_dict, samples)
       IN  /\ eig' = run.value
           /\ entropy_calls' = run.entropy_calls
           /\ entropy_arg' = run.arg
    /\ pc' = "returned"
    /\ UNCHANGED << setupVars, callVars, harnessVars, beliefVars,
                    loopVars, game_error, attempt, turnVars, tallyVars,
                    eigVars, consistency_dict, p_in >>

SpecEig == InitEig /\ [][CalculateEigCall]_vars

InitSelect ==
    /\ Idle
    /\ NoHarness
    /\ NoBelief
    /\ NoCall
    /\ agent_type = "EIG"
    /\ env_kind = "echo"
    /\ pc = "rank"
    /\ samples = << >>
    /\ question_list \in QuestionLists
    /\ consistency_dict = << >>
    /\ p_in = Zero

\* best_question = sorted(question_list, key=lambda x: x[1], reverse=True)[0][0]
\* (IndexError on an empty list).
SelectBestCall ==
    /\ pc = "rank"
    /\ IF question_list = << >>
       THEN pc' = "IndexError" /\ UNCHANGED best_question
       ELSE pc' = "returned" /\ best_question' = select_best(question_list)
    /\ UNCHANGED << setupVars, callVars, harnessVars, beliefVars,
                    loopVars, game_error, attempt, turnVars, tallyVars,
                    cycle, samples, questions, workers, completed, question_list,
                    pureVars >>

SpecSelect == InitSelect /\ [][SelectBestCall]_vars

-----------------------------------------------------------------------------
(* One call of the language model with its retry loop, at each of the six  *)
(* functions that make one; the prompts sent and the replies received are  *)
(* recorded.                                                               *)

Sites ==
    { "decision", "question", "move", "_generate_fresh_samples",
      "_get_consistency_dict", "_generate_batch_questions" }

\* max_retries of the loop of each function.  _generate_batch_questions has
\* no default: its caller question() hands over its own max_retries.
site_max_retries(s) ==
    CASE s = "decision" -> DECISION_MAX_RETRIES
      [] s = "question" -> QUESTION_MAX_RETRIES
      [] s = "move" -> MOVE_MAX_RETRIES
      [] s = "_generate_fresh_samples" -> SAMPLES_MAX_RETRIES
      [] s = "_get_consistency_dict" -> CONSISTENCY_MAX_RETRIES
      [] s = "_generate_batch_questions" -> EIG_QUESTION_MAX_RETRIES

\* The batch size question() asks for (its parameter k).
K == 10

\* The prompt each function formats before its loop: the template and the
\* values substituted into it.
build_prompt(s, history) ==
    LET context == format_history(history).text
        rq == remaining(history)
    IN  CASE s \in { "decision", "question" } ->
               [template |-> s, context |-> context, remaining_questions |-> rq]
          [] s \in { "move", "_generate_fresh_samples" } ->
               [template |-> s, context |-> context]
          [] s = "_get_consistency_dict" ->
               [template |-> s, context |-> context, question |-> Q1,
                objects |-> << apple, car >>]
          [] s = "_generate_batch_questions" ->
               [template |-> s, context |-> context, remaining_questions |-> rq,
                k |-> K]

\* Mutant of request: a retry tells the model about the replies that failed.
request_with_carry_over(p, replies) ==
    IF replies = << >> THEN p ELSE [p EXCEPT !.context = @ \o << "!" >>]

\* self.openrouter_agent(prompt) / self.sampling_agent(prompt): what is sent
\* on an attempt, given the replies received on the attempts before it.
request(p, replies) == p

\* The parsing of one reply at each function: whether the attempt succeeds,
\* and the value the function then returns.
site_parse(s, response) ==
    CASE s = "decision" ->
           [ok |-> parse_decision(response) # None,
            value |-> parse_decision(response)]
      [] s = "question" ->
           [ok |-> response.match, value |-> strip(response.group)]
      [] s = "move" ->
           [ok |-> response.match, value |-> wrap_move(response.group)]
      [] s = "_generate_fresh_samples" ->
           [ok |-> parse_values(response).ok,
            value |-> canonical_samples(parse_values(response).values)]
      [] s = "_generate_batch_questions" ->
           [ok |-> parse_values(response).ok,
            value |-> stripped_questions(parse_values(response).values)]
      [] s = "_get_consistency_dict" ->
           [ok |-> parse_dict(response).ok, value |-> parse_dict(response)]

\* After max_retries failed attempts _generate_batch_questions prints and
\* returns []; the other loops end in their else branch, which raises.
returns_on_exhaustion(s) == s = "_generate_batch_questions"

\* Longest answer text handed to move().
MaxAnswer == 3

\* The answer texts of move(): every text of at most MaxAnswer characters
\* over brackets, a letter and a blank.
Answers == UNION { [1..k -> { "[", "]", "c", " " }] : k \in 0..MaxAnswer }

\* The replies of the language model at each function.
CallReplies(s) ==
    CASE s = "decision" -> DecisionReplies
      [] s = "question" -> QuestionReplies
      [] s = "move" -> { NoMatch } \cup { Match(a) : a \in Answers }
      [] s = "_generate_fresh_samples" ->
           { Match(Doc("garbage", << >>)),
             Match(Doc("json_other", << >>)),
             Match(Doc("json_dict", << >>)),
             Match(Doc("json_dict", << apple, car >>)),
             Match(Doc("json_dict", << << "A" >> \o Tail(apple) \o << " " >>,
                                       apple, car >>)),
             Match(Doc("py_dict", << car, << " ", "C" >> \o Tail(car), apple >>)) }
      [] s = "_generate_batch_questions" -> BatchReplies
      [] s = "_get_consistency_dict" ->
           (ConsistencyReplies \ { Match(Doc("garbage", << >>)) })
           \cup { Match(Doc("json_other", << >>)) }

\* The histories the call is made with.
CallHistories ==
    { << Entry(GAME_ID, PROMPT) >>,
      << Entry(GAME_ID, PROMPT), Entry(PLAYER_ID, ECHO), Entry(GAME_ID, ANSWER) >> }

InitCall ==
    /\ Idle
    /\ NoHarness
    /\ NoBelief
    /\ agent_type = "EIG"
    /\ env_kind = "echo"
    /\ pc = "call"
    /\ samples = << >>
    /\ question_list = << >>
    /\ consistency_dict = << >>
    /\ p_in = Zero
    /\ site \in Sites
    /\ \E history \in CallHistories : prompt = build_prompt(site, history)

\* One iteration of the retry loop of the function `site`: the prompt is
\* sent, the reply is parsed; the function returns, goes round again, or
\* leaves the loop after the last attempt.
OracleAttempt ==
    /\ pc = "call"
    /\ \E response \in CallReplies(site) :
         LET parsed == site_parse(site, response)
         IN  /\ sent' = Append(sent, request(prompt, received))
             /\ received' = Append(received, response)
             /\ IF parsed.ok
                THEN /\ result' = parsed.value
                     /\ pc' = "returned"
                     /\ UNCHANGED << attempt, game_error >>
                ELSE IF retry_again(attempt, site_max_retries(site))
                THEN /\ attempt' = attempt + 1
                     /\ UNCHANGED << pc, result, game_error >>
                ELSE IF returns_on_exhaustion(site)
                THEN /\ result' = << >>
                     /\ pc' = "returned"
                     /\ UNCHANGED << attempt, game_error >>
                ELSE /\ Raise
                     /\ UNCHANGED << attempt, result >>
    /\ UNCHANGED << setupVars, harnessVars, beliefVars,
                    loopVars, turnVars, tallyVars, eigVars, pureVars,
                    site, prompt >>

SpecCall == InitCall /\ [][OracleAttempt]_vars

-----------------------------------------------------------------------------
(* format_history applied to the histories an environment may hand over.   *)

\* Longest history serialized here.
MaxHistory == 3

\* Messages of a history entry; one of them runs over two lines.
HistoryMessages == { PROMPT, ECHO, << "a", "\n", "b" >> }

\* The entries: the two speakers of player_dict and one that is not in it.
HistoryEntries ==
    { Entry(player, message) :
        player \in { GAME_ID, PLAYER_ID, 1 }, message \in HistoryMessages }

InitHistory ==
    /\ IdleAgent
    /\ NoHarness
    /\ NoBelief
    /\ NoCall
    /\ agent_type = "LLM"
    /\ env_kind = "echo"
    /\ pc = "format_history"
    /\ samples = << >>
    /\ question_list = << >>
    /\ consistency_dict = << >>
    /\ p_in = Zero
    /\ all_observations \in UNION { [1..n -> HistoryEntries] : n \in 0..MaxHistory }

\* self.format_history(game_history)
FormatHistoryCall ==
    /\ pc = "format_history"
    /\ result' = format_history(all_observations)
    /\ pc' = IF format_history(all_observations).ok THEN "returned" ELSE "KeyError"
    /\ UNCHANGED << setupVars, harnessVars, beliefVars,
                    loopVars, game_error, attempt, turnVars, tallyVars,
                    eigVars, pureVars, site, prompt, sent, received >>

SpecHistory == InitHistory /\ [][FormatHistoryCall]_vars

-----------------------------------------------------------------------------
(* One call of EIGAgent.question, with batches of several questions.       *)

Q3 == << "Q", "3" >>

QuestionSampleReplies ==
    { Match(Doc("garbage", << >>)),
      Match(Doc("json_dict", << >>)),
      Match(Doc("json_dict", << apple, car >>)) }

QuestionBatchReplies ==
    { NoMatch,
      Match(Doc("json_dict", << >>)),
      Match(Doc("json_dict", << Q1, Q2 >>)),
      Match(Doc("py_dict", << Q1, Q2, Q3 >>)) }

QuestionConsistencyReplies ==
    { NoMatch,
      Match(Doc("json_other", << >>)),
      Match(Doc("json_dict", (apple :> "yes") @@ (car :> "no"))),
      Match(Doc("json_dict", (apple :> "yes") @@ (car :> "yes"))),
      Match(Doc("py_dict", (apple :> "yes") @@ (car :> "maybe"))) }

\* question() has been entered: the first cycle is about to draw its pool.
InitQuestion ==
    /\ Idle
    /\ NoHarness
    /\ NoBelief
    /\ NoCall
    /\ agent_type = "EIG"
    /\ env_kind = "echo"
    /\ pc = "eig_samples"
    /\ samples = << >>
    /\ question_list = << >>
    /\ consistency_dict = << >>
    /\ p_in = Zero

NextQuestion ==
    \/ FreshSamplesAttempt(QuestionSampleReplies)
    \/ BatchQuestionsAttempt(QuestionBatchReplies)
    \/ ConsistencyAttempt(QuestionConsistencyReplies)
    \/ RankQuestions

SpecQuestion == InitQuestion /\ [][NextQuestion]_vars

-----------------------------------------------------------------------------
(* EIGAgent.question up to the submission of the batch to the executor,    *)
(* for batches of any size the language model may return.                  *)

\* Longest batch the language model returns here.
MaxReplyBatch == 11

ExecutorBatchReplies ==
    { NoMatch }
    \cup { Match(Doc("json_dict", [i \in 1..n |-> Q1])) : n \in 0..MaxReplyBatch }

\* question() has drawn its pool and is about to ask for the batch.
InitExecutor ==
    /\ Idle
    /\ NoHarness
    /\ NoBelief
    /\ NoCall
    /\ agent_type = "EIG"
    /\ env_kind = "echo"
    /\ pc = "eig_batch"
    /\ samples \in Pools
    /\ question_list = << >>
    /\ consistency_dict = << >>
    /\ p_in = Zero

NextExecutor == BatchQuestionsAttempt(ExecutorBatchReplies)

SpecExecutor == InitExecutor /\ [][NextExecutor]_vars

-----------------------------------------------------------------------------
(* Properties.                                                             *)

\* Player entries of the history of the current turn.
PlayerEntries ==
    Cardinality({ i \in DOMAIN all_observations :
                    all_observations[i].player = PLAYER_ID })

\* C1: in a turn whose history holds at least 20 player entries
\* (remaining_questions = 0), once decision() has returned, whatever it
\* returned, move() has been invoked and question() has not.
C1_ForcedGuess ==
    (decision # None /\ PlayerEntries >= 20)
        => /\ remaining_questions = 0
           /\ move_calls = 1
           /\ question_calls = 0
           /\ pc \in { "move", "step", "failed" }

\* decision() returned QUESTION with 20 player entries in the history, and
\* the turn returned a guess.
C1_Witness ==
    /\ decision = QUESTION
    /\ PlayerEntries >= 20
    /\ pc = "step"
    /\ move_calls = 1
    /\ question_calls = 0

\* C2: in a turn with remaining_questions > 0, question() is invoked (and
\* move() is not) exactly when decision() returned QUESTION, move() (and not
\* question()) exactly when it returned GUESS; nothing is invoked before
\* decision() returns, and a turn that returns has invoked exactly one of
\* the two, once, and holds one action.
C2_OneCallPerTurn ==
    /\ (decision # None /\ remaining_questions > 0)
          => /\ decision \in { QUESTION, GUESS }
             /\ (decision = QUESTION) <=> (question_calls = 1 /\ move_calls = 0)
             /\ (decision = GUESS) <=> (move_calls = 1 /\ question_calls = 0)
    /\ decision = None => (move_calls = 0 /\ question_calls = 0)
    /\ pc = "step" => /\ decision # None
                      /\ move_calls + question_calls = 1
                      /\ action # None

\* An EIG turn with budget left where decision() returned QUESTION and the
\* turn returned the selected question.
C2_Witness ==
    /\ pc = "step"
    /\ agent_type = "EIG"
    /\ remaining_questions > 0
    /\ decision = QUESTION
    /\ question_calls = 1
    /\ move_calls = 0
    /\ action = Q1

\* C3: when the environment records each agent action as one player entry,
\* the agent emits at most 20 questions, every turn that starts with 20
\* player entries emits a guess, and after 21 turns a guess has been emitted.
C3_QuestionBudget ==
    env_kind = "echo"
        => /\ questions_emitted + question_calls <= 20
           /\ (decision # None /\ PlayerEntries >= 20) => question_calls = 0
           /\ turn_count >= 21 => guesses_emitted >= 1

\* Twenty questions were asked and the 21st turn emitted the forced guess.
C3_Witness ==
    /\ env_kind = "echo"
    /\ turn_count = 21
    /\ questions_emitted = 20
    /\ guesses_emitted = 1

ScoreAt(i) == question_list[i][2]

NoNaNScore == \A i \in DOMAIN question_list : ~ScoreAt(i).nan

\* C4: for a batch without NaN scores, the question returned is at the
\* first position whose score no other score exceeds.
C4_FirstMaximal ==
    (pc = "returned" /\ question_list # << >> /\ NoNaNScore)
        => \E i \in DOMAIN question_list :
              /\ best_question = question_list[i][1]
              /\ \A j \in DOMAIN question_list : ~FLt(ScoreAt(i), ScoreAt(j))
              /\ \A j \in 1..(i - 1) : FLt(ScoreAt(j), ScoreAt(i))

\* A batch of three whose maximal score is shared by the second and the
\* third question: the second is returned.
C4_Witness ==
    /\ pc = "returned"
    /\ Len(question_list) = 3
    /\ NoNaNScore
    /\ FLt(ScoreAt(1), ScoreAt(2))
    /\ ScoreAt(2) = ScoreAt(3)
    /\ question_list[1][1] = Q1
    /\ question_list[2][1] = Q2
    /\ question_list[3][1] = Q1
    /\ best_question = Q2

\* C5: a question whose score is NaN is returned only if every question of
\* the batch scores NaN (stated for a question whose text no other question
\* of the batch shares).
C5_NaNRankedLast ==
    pc = "returned"
        => \A i \in DOMAIN question_list :
              ( /\ ScoreAt(i).nan
                /\ \A j \in DOMAIN question_list \ { i } :
                      question_list[j][1] # question_list[i][1]
                /\ best_question = question_list[i][1] )
              => \A j \in DOMAIN question_list : ScoreAt(j).nan

\* Classifications of the pool, counted from the ConsistencyMap.
Classified(v) ==
    { i \in DOMAIN samples :
        samples[i] \in DOMAIN consistency_dict
        /\ consistency_dict[samples[i]] = v }

YesCount == Cardinality(Classified("yes"))
NoCount == Cardinality(Classified("no"))

InvalidPresent ==
    \E i \in DOMAIN samples :
        /\ samples[i] \in DOMAIN consistency_dict
        /\ consistency_dict[samples[i]] \notin { "yes", "no" }

\* C6: _calculate_eig returns NaN whenever a candidate of the pool is mapped
\* to a value other than "yes" or "no", whatever the other candidates map to.
C6_InvalidGivesNaN ==
    (pc = "returned" /\ InvalidPresent) => (eig = NaN /\ entropy_calls = 0)

\* The invalid classification comes after a valid one and the partition is
\* one-sided: NaN, not 0, is returned.
C6_Witness ==
    /\ pc = "returned"
    /\ samples = << apple, car >>
    /\ consistency_dict = (apple :> "yes") @@ (car :> "maybe")
    /\ eig = NaN

\* C7 as stated: _calculate_eig returns exactly 0, without calling
\* binary_entropy, whenever the yes-count or the no-count is zero.
C7_AsStated ==
    (pc = "returned" /\ (YesCount = 0 \/ NoCount = 0))
        => (eig = Zero /\ entropy_calls = 0)

\* C7: when no candidate of the pool has a classification other than "yes"
\* or "no", _calculate_eig returns exactly 0, without calling binary_entropy,
\* whenever the yes-count or the no-count is zero (also when no candidate of
\* the pool is in the map).
C7_OneSidedGivesZero ==
    (pc = "returned" /\ ~InvalidPresent /\ (YesCount = 0 \/ NoCount = 0))
        => (eig = Zero /\ entropy_calls = 0)

\* Several candidates, all classified "yes".
C7_Witness ==
    /\ pc = "returned"
    /\ YesCount >= 2
    /\ NoCount = 0
    /\ ~InvalidPresent
    /\ eig = Zero

\* C8: for an even split the argument of binary_entropy is exactly 1/2 and
\* the score is H(1/2) - H(EPSILON) = 1 - H(0.1), within 0.001 of 0.531.
C8_EvenSplit ==
    (pc = "returned" /\ ~InvalidPresent /\ YesCount = NoCount /\ YesCount > 0)
        => /\ entropy_arg = Rat(1, 2)
           /\ eig = FSub(binary_entropy(Rat(1, 2)), binary_entropy(EPSILON))
           /\ eig = FSub(One, binary_entropy(Rat(1, 10)))
           /\ 530 * eig.d <= 1000 * eig.n
           /\ 1000 * eig.n <= 532 * eig.d

\* Pool {apple, car} with map {apple: yes, car: no}.
C8_Witness ==
    /\ pc = "returned"
    /\ samples = << apple, car >>
    /\ consistency_dict = (apple :> "yes") @@ (car :> "no")
    /\ ~eig.nan
    /\ entropy_calls = 2

\* C9: binary_entropy is 0 at 0 and at 1, 1 at 1/2, NaN below 0 and above
\* 1, and takes the same value at p and at 1 - p for p in [0, 1].
C9_BinaryEntropy ==
    (pc = "returned" /\ ~p_in.nan)
        => /\ (p_in = Zero \/ p_in = One) => eig = Zero
           /\ p_in = Rat(1, 2) => eig = One
           /\ (p_in.n < 0 \/ p_in.n > p_in.d) => eig = NaN
           /\ (p_in.n >= 0 /\ p_in.n <= p_in.d)
                 => /\ ~eig.nan
                    /\ eig = binary_entropy(Rat(p_in.d - p_in.n, p_in.d))

\* An interior point away from 1/2.
C9_Witness ==
    /\ pc = "returned"
    /\ p_in = Rat(1, 4)
    /\ FLt(Zero, eig)
    /\ FLt(eig, One)

\* The pool without the candidates that are absent from the map.
ClassifiedPool ==
    SelectSeq(samples, LAMBDA obj : obj \in DOMAIN consistency_dict)

\* cd classifies every candidate of the pool as consistency_dict does.
AgreesOnPool(cd) ==
    \A i \in DOMAIN samples :
        /\ samples[i] \in DOMAIN cd <=> samples[i] \in DOMAIN consistency_dict
        /\ samples[i] \in DOMAIN cd => cd[samples[i]] = consistency_dict[samples[i]]

\* C10: _calculate_eig returns (no error is raised), the score is the one
\* of the pool without its candidates absent from the map, and it is the
\* same for every map that differs only on keys outside the pool.
C10_AbsentIgnored ==
    pc = "returned"
        => /\ eig = _calculate_eig(consistency_dict, ClassifiedPool)
           /\ \A cd \in Dicts : AgreesOnPool(cd) => eig = _calculate_eig(cd, samples)
           /\ ~InvalidPresent
                 => calculate_eig_run(consistency_dict, samples).results
                        = [yes |-> YesCount, no |-> NoCount]

\* banana is in the pool and absent from the map, car is in the map and not
\* in the pool.
C10_Witness ==
    /\ pc = "returned"
    /\ samples = << apple, banana >>
    /\ consistency_dict = (apple :> "yes") @@ (car :> "maybe")
    /\ eig = Zero

\* The reply received on attempt i did not parse.
ReplyFailed(i) == ~site_parse(site, received[i]).ok

\* Every attempt of the loop has been made and the last one failed too.
Exhausted ==
    /\ Len(received) = site_max_retries(site)
    /\ ReplyFailed(Len(received))

\* C11: a call of decision, question, move, _generate_fresh_samples,
\* _get_consistency_dict or _generate_batch_questions sends at most
\* max_retries requests; every reply before the last one failed to parse (no
\* request follows a reply that parsed); while the loop runs fewer than
\* max_retries replies have failed, and the loop is left once max_retries
\* have; a call that returns after a reply that parsed returns its value.
C11_BoundedRetries ==
    /\ Len(sent) = Len(received)
    /\ Len(sent) <= site_max_retries(site)
    /\ \A i \in 1..(Len(received) - 1) : ReplyFailed(i)
    /\ pc = "call" => /\ Len(received) = attempt
                      /\ attempt < site_max_retries(site)
                      /\ \A i \in DOMAIN received : ReplyFailed(i)
    /\ Exhausted => pc # "call"
    /\ pc = "failed" => Exhausted
    /\ (pc = "returned" /\ ~Exhausted)
          => /\ ~ReplyFailed(Len(received))
             /\ result = site_parse(site, received[Len(received)]).value

\* decision() returns on its tenth and last attempt, after nine replies that
\* did not parse.
C11_Witness ==
    /\ site = "decision"
    /\ pc = "returned"
    /\ Len(sent) = DECISION_MAX_RETRIES
    /\ result = GUESS

\* C12: at each of the six functions, when all max_retries attempts have
\* failed to parse the call ends with an exception and returns nothing.
C12_ExhaustionRaises ==
    Exhausted => (pc = "failed" /\ game_error)

\* C14: every prompt sent by a call is the prompt built before the loop, and
\* the value returned is the one parsed from the first reply that parses,
\* whatever the replies before it were.
C14_IdenticalRetries ==
    /\ \A i \in DOMAIN sent : sent[i] = prompt
    /\ (pc = "returned" /\ ~Exhausted)
          => \E i \in DOMAIN received :
                /\ ~ReplyFailed(i)
                /\ \A j \in 1..(i - 1) : ReplyFailed(j)
                /\ result = site_parse(site, received[i]).value

\* _generate_fresh_samples returns the pool of its third reply after two
\* different replies that did not parse.
C14_Witness ==
    /\ site = "_generate_fresh_samples"
    /\ pc = "returned"
    /\ Len(sent) = 3
    /\ received[1] # received[2]
    /\ result = << apple, car >>

\* C13: a call of EIGAgent.question that ends with an error although no
\* classification task failed (the candidate sample or the question batch
\* came back empty or unparseable) has run max_retries (5) cycles.
C13_CycleRetried ==
    ( /\ pc = "failed"
      /\ agent_type = "EIG"
      /\ question_calls = 1
      /\ \A i \in DOMAIN workers : workers[i].status # "raised" )
        => cycle + 1 = EIG_QUESTION_MAX_RETRIES

\* The answer text move() works on: the stripped text of the reply it
\* returned on.
MoveAnswer == strip(received[Len(received)].group)

\* C15: the guess returned by move() starts with '[' and ends with ']'; an
\* answer already enclosed in brackets is returned unchanged; an answer
\* without brackets at its ends gets one pair; an answer with only a leading
\* '[' or only a trailing ']' does not end up with that bracket doubled.
C15_SingleBracketPair ==
    (site = "move" /\ pc = "returned")
        => LET a == MoveAnswer
               leading == startswith(a, "[")
               trailing == endswith(a, "]")
           IN  /\ startswith(result, "[") /\ endswith(result, "]")
               /\ (leading /\ trailing) => result = a
               /\ (~leading /\ ~trailing) => result = << "[" >> \o a \o << "]" >>
               /\ (leading /\ ~trailing) => SubSeq(result, 1, 2) # << "[", "[" >>
               /\ (trailing /\ ~leading)
                     => SubSeq(result, Len(result) - 1, Len(result)) # << "]", "]" >>

\* The candidates of a pool that a ConsistencyMap classifies as v.
ClassifiedAs(cd, pool, v) ==
    { c \in { pool[i] : i \in DOMAIN pool } : c \in DOMAIN cd /\ cd[c] = v }

\* C16: every candidate returned by _generate_fresh_samples is lower-cased
\* and trimmed, no candidate is in the pool twice, and _calculate_eig counts
\* each candidate once: for every ConsistencyMap with "yes"/"no" values the
\* yes-count and the no-count are the numbers of distinct candidates so
\* classified.
C16_CanonicalUnique ==
    (site = "_generate_fresh_samples" /\ pc = "returned")
        => /\ \A i \in DOMAIN result :
                 result[i] = lower(result[i]) /\ result[i] = strip(result[i])
           /\ \A i, j \in DOMAIN result : result[i] = result[j] => i = j
           /\ \A cd \in [Candidates -> { "yes", "no" }] :
                 calculate_eig_run(cd, result).results
                    = [yes |-> Cardinality(ClassifiedAs(cd, result, "yes")),
                       no |-> Cardinality(ClassifiedAs(cd, result, "no"))]

\* The task of question i has scored its question against the pool.
ScoredWith(task, pool) ==
    (task.status = "done" /\ task.reply.mapping)
        => task.eig = _calculate_eig(task.reply.dict, pool)

\* C17: question() is entered with no pool, batch or task left from an
\* earlier call; the batch is requested only after the pool of this call has
\* been drawn and the classifications only after the batch; from then until
\* question() returns the pool does not change, and every score is computed
\* against it.
C17_Step ==
    /\ (pc # "eig_samples" /\ pc' = "eig_samples")
          => (samples' = << >> /\ questions' = << >> /\ workers' = << >>)
    /\ (pc # "eig_batch" /\ pc' = "eig_batch")
          => (pc = "eig_samples" /\ workers' = << >>)
    /\ (pc # "eig_score" /\ pc' = "eig_score") => pc = "eig_batch"
    /\ pc \in { "eig_batch", "eig_score" } => samples' = samples
    /\ \A i \in DOMAIN workers' : ScoredWith(workers'[i], samples')

C17_FreshPool == [][C17_Step]_vars

\* A second question turn of an EIG game: a pool has been drawn again and a
\* question scored against it.
C17_Witness ==
    /\ agent_type = "EIG"
    /\ questions_emitted >= 1
    /\ pc = "eig_score"
    /\ samples = << apple, car >>
    /\ Len(workers) = 1
    /\ workers[1].status = "done"
    /\ ~workers[1].eig.nan
    /\ workers[1].eig # Zero

\* C18: question() leaves the scoring step (to rank, or with an exception)
\* only when no task of the cycle is still running, the tasks' results are
\* not touched by the ranking, and the best question is assigned once, in
\* that step, by question() itself.
C18_Step ==
    /\ (pc = "eig_score" /\ pc' # "eig_score")
          => /\ \A i \in DOMAIN workers : workers[i].status # "running"
             /\ workers' = workers
    /\ (question_list' # question_list \/ best_question' # best_question)
          => /\ pc = "eig_score"
             /\ pc' \in { "step", "failed" }
             /\ best_question = None
             /\ \A i \in DOMAIN workers : workers[i].status = "done"
             /\ Len(question_list') = Len(workers)

C18_RankAfterJoin == [][C18_Step]_vars

\* A batch of three has been ranked; the task of the first question needed
\* more attempts than the others and all three have completed.
C18_Witness ==
    /\ pc = "step"
    /\ Len(workers) = 3
    /\ \A i \in DOMAIN workers : workers[i].status = "done"
    /\ Len(question_list) = 3
    /\ best_question # None

\* A ConsistencyMap with a value other than "yes"/"no" for a candidate of
\* the pool.
InvalidFor(cd, pool) ==
    \E i \in DOMAIN pool :
        pool[i] \in DOMAIN cd /\ cd[pool[i]] \notin { "yes", "no" }

\* The task's ConsistencyMap is a dictionary with an invalid value.
MalformedTask(task) ==
    /\ task.reply.ok
    /\ task.reply.mapping
    /\ InvalidFor(task.reply.dict, samples)

\* C20: a task whose ConsistencyMap holds a value other than "yes"/"no" for
\* a candidate of the pool completes with the score NaN; question() ends
\* with an exception only when the batch is empty or a task ended with one,
\* and a task ends with one only when its retries are exhausted or the value
\* parsed is not a dictionary; otherwise every question of the batch has its
\* score in question_list and a question of the batch is returned.
C20_MalformedGivesNaN ==
    /\ \A i \in DOMAIN workers :
          /\ MalformedTask(workers[i])
                => (workers[i].status = "done" /\ workers[i].eig = NaN)
          /\ workers[i].status = "raised"
                => (~workers[i].reply.ok \/ ~workers[i].reply.mapping)
    /\ (pc = "failed" /\ workers # << >>)
          => \E i \in DOMAIN workers : workers[i].status = "raised"
    /\ pc = "step"
          => /\ Len(question_list) = Len(questions)
             /\ \A i \in DOMAIN questions :
                   /\ workers[i].status = "done"
                   /\ question_list[i] = << questions[i], workers[i].eig >>
             /\ \E i \in DOMAIN questions : best_question = questions[i]
             /\ action = best_question

\* The map of the second of two questions holds "maybe": its score is NaN,
\* the first question has a real score and a question is returned.
C20_Witness ==
    /\ pc = "step"
    /\ Len(workers) = 2
    /\ MalformedTask(workers[2])
    /\ question_list[2][2] = NaN
    /\ ~question_list[1][2].nan
    /\ question_list[1][2] # Zero
    /\ action \in { Q1, Q2 }

\* Classification calls of the cycle that are outstanding.
Outstanding ==
    Cardinality({ i \in DOMAIN workers : workers[i].status = "running" })

\* C19: the executor of a scoring cycle has at least as many threads as the
\* batch has questions and at least 4, and neither its threads nor the
\* classification calls outstanding at one time exceed a configured maximum
\* (the batch size k that question() asks for), whatever the size of the
\* batch the language model returned.
C19_WorkersCapped ==
    pc = "eig_score"
        => /\ max_workers(questions) >= Len(questions)
           /\ max_workers(questions) >= WORKER_FLOOR
           /\ max_workers(questions) <= K
           /\ Outstanding <= K

\* A decide reply whose answer region holds something other than the two
\* decision words.
ProtocolViolation(response) ==
    response.match /\ lower(strip(response.group)) \notin { QUESTION, GUESS }

\* C21: decision() never returns after a reply whose answer region held a
\* value other than "question" or "guess" (the call ends with an error and
\* the turn goes on to neither move() nor question()), and such a value is
\* never what it returns.
C21_BadDecisionFatal ==
    (site = "decision" /\ pc = "returned")
        => /\ \A i \in DOMAIN received : ~ProtocolViolation(received[i])
           /\ result \in { QUESTION, GUESS }

\* The label of a speaker and the text of one entry, as the claim words them.
SpeakerLabel(player) ==
    IF player = -1 THEN << "G", "A", "M", "E" >>
    ELSE << "P", "L", "A", "Y", "E", "R" >>

EntryLine(entry) ==
    << "[" >> \o SpeakerLabel(entry.player) \o << "]", " " >> \o entry.message
    \o << "\n" >>

\* The texts of the first n entries, one after the other.
RECURSIVE EntryLines(_, _)
EntryLines(history, n) ==
    IF n = 0 THEN << >>
    ELSE EntryLines(history, n - 1) \o EntryLine(history[n])

\* Line ends in a text.
LineEnds(text) == Cardinality({ i \in DOMAIN text : text[i] = "\n" })

KnownSpeakers == \A i \in DOMAIN all_observations :
                    all_observations[i].player \in { -1, 0 }

\* C27 as stated: the serialized history holds the entries in order as
\* '[LABEL] message' with the message verbatim, on exactly one line per
\* entry; an entry with a speaker other than -1 and 0 gives an error and no
\* text.
C27_OneLinePerEntry ==
    /\ pc = "returned"
          => /\ KnownSpeakers
             /\ result.text = EntryLines(all_observations, Len(all_observations))
             /\ LineEnds(result.text) = Len(all_observations)
    /\ pc = "KeyError" => (~KnownSpeakers /\ result.text = << >>)

RECURSIVE MessageLineEnds(_, _)
MessageLineEnds(history, n) ==
    IF n = 0 THEN 0
    ELSE MessageLineEnds(history, n - 1) + LineEnds(history[n].message)

\* C27: the serialized history is, for the entries in their order, the text
\* '[LABEL] message' followed by a line end, the message verbatim: one line
\* per entry when no message holds a line end, and one more line for each
\* line end inside a message; an entry with a speaker other than -1 and 0
\* gives an error and no text.
C27_FormatHistory ==
    /\ pc = "returned"
          => /\ KnownSpeakers
             /\ result.text = EntryLines(all_observations, Len(all_observations))
             /\ LineEnds(result.text)
                  = Len(all_observations)
                    + MessageLineEnds(all_observations, Len(all_observations))
    /\ pc = "KeyError" => (~KnownSpeakers /\ result.text = << >>)
    /\ KnownSpeakers => pc # "KeyError"

\* A game entry, a player entry, a game entry.
C27_Witness ==
    /\ pc = "returned"
    /\ Len(all_observations) = 3
    /\ all_observations[1] = Entry(-1, PROMPT)
    /\ all_observations[2] = Entry(0, ECHO)
    /\ all_observations[3].player = -1
    /\ LineEnds(result.text) = 3

\* C28: in every turn remaining_questions is max(0, 20 - player entries of
\* the history), a number of 0..20; one more player entry makes it one less
\* while it is positive (and leaves it 0 otherwise), a game entry leaves it
\* as it is; from one turn of a game to the next it never grows.
C28_Step ==
    /\ pc \notin { "loop", "finished" }
          => /\ remaining_questions = Max(0, 20 - PlayerEntries)
             /\ remaining_questions \in 0..20
             /\ remaining(Append(all_observations, Entry(0, ECHO)))
                  = IF remaining_questions > 0 THEN remaining_questions - 1 ELSE 0
             /\ remaining(Append(all_observations, Entry(-1, ANSWER)))
                  = remaining_questions
    /\ remaining_questions' <= remaining_questions

C28_RemainingQuestions == [][C28_Step]_vars

\* The budget has gone from 20 to 0 and stays there although the history
\* holds more than 20 player entries.
C28_Witness ==
    /\ pc = "decision"
    /\ PlayerEntries > 20
    /\ remaining_questions = 0

\* What the agent holds when __call__ is entered: nothing but the history
\* it was handed and the budget computed from it.
TurnEntry ==
    /\ remaining_questions = remaining(all_observations)
    /\ attempt = 0
    /\ decision = None
    /\ action = None
    /\ move_calls = 0
    /\ question_calls = 0
    /\ cycle = 0
    /\ samples = << >>
    /\ questions = << >>
    /\ workers = << >>
    /\ completed = << >>
    /\ question_list = << >>
    /\ best_question = None

\* C22: no step changes what the agent was built with, and every turn is
\* entered in the same agent state whatever turns were played before: what
\* a turn does is decided by the history and the replies alone.
C22_Step ==
    /\ agent_type' = agent_type
    /\ (pc = "loop" /\ pc' = "decision") => TurnEntry'

C22_NoStateAcrossTurns == [][C22_Step]_vars

\* The third turn of an EIG game is entered after a question turn and a
\* turn of either kind.
C22_Witness ==
    /\ agent_type = "EIG"
    /\ turn_count = 2
    /\ questions_emitted >= 1
    /\ pc = "decision"
    /\ TurnEntry

\* The score a task gives its question: decided by the classification reply
\* it parsed and the pool, not by when the task ran.
ReplyScore(parsed, pool) ==
    IF parsed.mapping THEN _calculate_eig(parsed.dict, pool) ELSE Zero

\* The (question, score) pairs of a scored batch, in batch order.
BatchOrderPairs ==
    [i \in 1..Len(questions) |-> << questions[i], ReplyScore(workers[i].reply, samples) >>]

\* C29: when question() returns a question, every task of the batch has
\* ended, in some order; whatever that order, question_list pairs the i-th
\* question of the batch with the score of the i-th classification reply,
\* and the question returned is the one selected from that list: it is
\* decided by the pool, the batch and the replies alone.
C29_BatchOrderPairing ==
    pc = "step"
        => /\ Len(completed) = Len(questions)
           /\ { completed[k] : k \in DOMAIN completed } = DOMAIN questions
           /\ question_list = BatchOrderPairs
           /\ best_question = select_best(BatchOrderPairs)

\* Two different questions with equal real scores, the second scored before
\* the first: the first of the batch is returned.
C29_Witness ==
    /\ pc = "step"
    /\ questions = << Q1, Q2 >>
    /\ completed = << 2, 1 >>
    /\ workers[1].eig = workers[2].eig
    /\ ~workers[1].eig.nan
    /\ workers[1].eig # Zero
    /\ best_question = Q1

\* The classification of question i used up its retries: its task ended
\* with the ValueError of _get_consistency_dict.
RetriesExhausted(task) == task.status = "raised" /\ ~task.reply.ok

\* C30: once the classification of one question of the batch has exhausted
\* its retries, question() returns no question, whatever scores the other
\* tasks have; and the step in which the exception leaves question() is
\* taken only when every task of the batch has ended, by a score or by an
\* exception of its own: none is running and none was dropped.
C30_Step ==
    /\ (\E i \in DOMAIN workers' : RetriesExhausted(workers'[i]))
          => (pc' # "step" /\ best_question' = None /\ action' = None)
    /\ (pc = "eig_score" /\ pc' = "failed")
          => /\ workers' = workers
             /\ Len(workers) = Len(questions)
             /\ \A i \in DOMAIN workers : workers[i].status \in { "done", "raised" }
             /\ (questions # << >>) => \E i \in DOMAIN workers : workers[i].status = "raised"

C30_FailureAfterJoin == [][C30_Step]_vars

\* The second of two classifications exhausted its retries first, the first
\* task went on and scored its question; question() has raised.
C30_Witness ==
    /\ pc = "failed"
    /\ Len(workers) = 2
    /\ completed = << 2, 1 >>
    /\ RetriesExhausted(workers[2])
    /\ workers[1].status = "done"
    /\ ~workers[1].eig.nan
    /\ workers[1].eig # Zero
    /\ action = None

-----------------------------------------------------------------------------
(* run_parallel_experiments and run_single_game (src/fixed_game_loop.py):  *)
(* the games of an experiment run as tasks of one thread pool.  A game     *)
(* sees its agent as a call that returns an action or raises, and its      *)
(* environment as an object that records the actions it is handed.         *)

MaxGamesPerModel == 1
MaxGames == 2
MaxGameTurns == 2

\* max_workers=10
DEFAULT_MAX_WORKERS == 10

ModelLists == { << "m1" >> }
AgentTypeLists == { << "LLM" >>, << "LLM", "EIG" >> }

\* The nested loops over models, agent types and runs; game_id counts the
\* configurations from 1.
build_game_configs(models, agent_types, games_per_model) ==
    [n \in 1..(Len(models) * Len(agent_types) * games_per_model) |->
        LET k == n - 1
        IN  [model_name |-> models[(k \div (games_per_model * Len(agent_types))) + 1],
             agent_type |-> agent_types[((k \div games_per_model) % Len(agent_types)) + 1],
             game_id |-> n,
             run_id |-> (k % games_per_model) + 1]]

\* executor.submit(run_single_game, ...) for one configuration.
submit(config) ==
    [status |-> "queued", pc |-> "setup", env |-> 0, agent |-> 0, turn_count |-> 0,
     done |-> FALSE, actions |-> << >>, failed_at |-> "none", result |-> None]

\* Mutant of new_object: every game is handed the same k-th object.
new_object_shared(objects, k) == k

\* The identity of the k-th object a game constructs: not an object that
\* exists already.
new_object(objects, k) == Len(objects) + k

\* game_result, as far as the harness reads it.
game_result(config, game) ==
    [game_id |-> config.game_id, run_id |-> config.run_id,
     model_name |-> config.model_name, agent_type |-> config.agent_type,
     turn_count |-> game.turn_count]

\* except Exception as e: the record returned in place of the game result.
on_exception(config, where) ==
    [game_id |-> config.game_id, run_id |-> config.run_id,
     model_name |-> config.model_name, agent_type |-> config.agent_type,
     error |-> where]

\* run_single_game has ended with an exception raised at `where`.
failed(game, config, where) ==
    [game EXCEPT !.status = "finished", !.pc = "failed", !.failed_at = where,
                 !.result = on_exception(config, where)]

\* What the harness does not touch: the state of the agent under study.
agentVars ==
    << setupVars, callVars, beliefVars, loopVars, game_error, attempt, turnVars,
       tallyVars, eigVars, pureVars >>

\* Games a thread of the pool is running.
running_games == { g \in DOMAIN futures : futures[g].status = "running" }

\* run_parallel_experiments has built the configurations and submitted
\* them all; the directory 'experiments' exists or not.
InitExperiments ==
    /\ IdleAgent
    /\ NoCall
    /\ NoBelief
    /\ agent_type = "LLM"
    /\ env_kind = "echo"
    /\ pc = "as_completed"
    /\ all_observations = << >>
    /\ samples = << >>
    /\ question_list = << >>
    /\ consistency_dict = << >>
    /\ p_in = Zero
    /\ \E models \in ModelLists, agent_types \in AgentTypeLists,
          games_per_model \in 0..MaxGamesPerModel,
          workers_given \in { 1, DEFAULT_MAX_WORKERS }, dir \in BOOLEAN :
          /\ Len(models) * Len(agent_types) * games_per_model <= MaxGames
          /\ experiment = [models |-> models, agent_types |-> agent_types,
                           games_per_model |-> games_per_model,
                           max_workers |-> workers_given,
                           dir_exists |-> dir, summary |-> None]
          /\ game_configs = build_game_configs(models, agent_types, games_per_model)
    /\ futures = [g \in DOMAIN game_configs |-> submit(game_configs[g])]
    /\ heap = << >>
    /\ game_results = << >>

\* A thread of the pool takes the oldest queued game and runs
\* run_single_game up to the loop: the base agent, the environment with its
\* gamemaster and the agent are constructed, or one of the constructors
\* raises.
StartGame(g) ==
    /\ pc = "as_completed"
    /\ futures[g].status = "queued"
    /\ \A h \in 1..(g - 1) : futures[h].status # "queued"
    /\ Cardinality(running_games) < experiment.max_workers
    /\ \/ /\ futures' = [futures EXCEPT ![g] = failed(@, game_configs[g], "setup")]
          /\ UNCHANGED heap
       \/ LET env == new_object(heap, 1)
              agent == new_object(heap, 2)
              made == (env :> [kind |-> "env", received |-> << >>])
                      @@ (agent :> [kind |-> "agent",
                                    agent_type |-> game_configs[g].agent_type])
          IN  /\ heap' = [o \in DOMAIN heap \cup DOMAIN made |->
                            IF o \in DOMAIN made THEN made[o] ELSE heap[o]]
              /\ futures' = [futures EXCEPT ![g].status = "running", ![g].pc = "loop",
                                            ![g].env = env, ![g].agent = agent]
    /\ UNCHANGED << experiment, game_configs, game_results, pc, agentVars >>

\* action = agent(all_observations): what the agent returns for the history
\* its game has collected from the environment.
agent_action(agent, history) == [agent_type |-> agent.agent_type, turn |-> history]

\* One iteration of the game loop: the observations are read from the
\* game's environment, the agent is called and raises or returns an action,
\* env.step is handed the action and raises or says whether the game is
\* over, turn_count is incremented.
PlayTurn(g) ==
    /\ pc = "as_completed"
    /\ futures[g].status = "running"
    /\ futures[g].pc = "loop"
    /\ LET game == futures[g]
           history == Len(heap[game.env].received)
           move == agent_action(heap[game.agent], history)
           stepped == [heap EXCEPT ![game.env].received = Append(@, move)]
       IN  \/ /\ futures' = [futures EXCEPT ![g] = failed(@, game_configs[g], "agent")]
              /\ UNCHANGED heap
           \/ /\ futures' = [futures EXCEPT ![g] =
                                failed([@ EXCEPT !.actions = Append(@, move)],
                                       game_configs[g], "step")]
              /\ heap' = stepped
           \/ \E over \in BOOLEAN :
                /\ game.turn_count + 1 >= MaxGameTurns => over
                /\ heap' = stepped
                /\ futures' = [futures EXCEPT ![g].actions = Append(@, move),
                                              ![g].turn_count = @ + 1,
                                              ![g].done = over,
                                              ![g].pc = IF over THEN "close" ELSE "loop"]
    /\ UNCHANGED << experiment, game_configs, game_results, pc, agentVars >>

\* After the loop: env.close(), the game result is built, the directory
\* 'experiments' is made and the game file written; env.close() or the
\* write may raise.
FinishGame(g) ==
    /\ pc = "as_completed"
    /\ futures[g].status = "running"
    /\ futures[g].pc = "close"
    /\ \/ /\ futures' = [futures EXCEPT ![g] = failed(@, game_configs[g], "close")]
          /\ UNCHANGED experiment
       \/ /\ futures' = [futures EXCEPT ![g] = failed(@, game_configs[g], "save")]
          /\ experiment' = [experiment EXCEPT !.dir_exists = TRUE]
       \/ /\ futures' = [futures EXCEPT ![g].status = "finished", ![g].pc = "returned",
                                        ![g].result = game_result(game_configs[g],
                                                                  futures[g])]
          /\ experiment' = [experiment EXCEPT !.dir_exists = TRUE]
    /\ UNCHANGED << game_configs, heap, game_results, pc, agentVars >>

\* for future in as_completed(...): result = future.result();
\* results.append(result).  future.result() re-raises what the task raised.
Collect(g) ==
    /\ pc = "as_completed"
    /\ futures[g].status = "finished"
    /\ IF "exception" \in DOMAIN futures[g].result
       THEN /\ pc' = "raised"
            /\ UNCHANGED << futures, game_results >>
       ELSE /\ game_results' = Append(game_results, futures[g].result)
            /\ futures' = [futures EXCEPT ![g].status = "collected"]
            /\ UNCHANGED pc
    /\ UNCHANGED << experiment, game_configs, heap, agentVars >>

\* The summary of the experiment.
experiment_summary(configs, collected) ==
    [total_games |-> Len(configs),
     completed_games |->
        Cardinality({ i \in DOMAIN collected : "error" \notin DOMAIN collected[i] }),
     failed_games |->
        Cardinality({ i \in DOMAIN collected : "error" \in DOMAIN collected[i] })]

\* Every future has been collected and the with block left: the summary is
\* built and written to experiments/experiment_summary_<timestamp>.json,
\* which raises FileNotFoundError when the directory does not exist; then
\* results is returned.
ReturnResults ==
    /\ pc = "as_completed"
    /\ \A g \in DOMAIN futures : futures[g].status = "collected"
    /\ experiment' = [experiment EXCEPT
                         !.summary = experiment_summary(game_configs, game_results)]
    /\ pc' = IF experiment.dir_exists THEN "returned" ELSE "raised"
    /\ UNCHANGED << game_configs, futures, heap, game_results, agentVars >>

NextExperiments ==
    \/ \E g \in DOMAIN futures : StartGame(g)
    \/ \E g \in DOMAIN futures : PlayTurn(g)
    \/ \E g \in DOMAIN futures : FinishGame(g)
    \/ \E g \in DOMAIN futures : Collect(g)
    \/ ReturnResults

SpecExperiments == InitExperiments /\ [][NextExperiments]_vars

\* run_single_game has ended for game g.
Ended(g) == futures[g].status \in { "finished", "collected" }

\* C23: a game that has ended has returned a record, never an exception; the
\* record carries 'error' exactly when a call of the game raised; when the
\* agent raised, the environment was handed no action for that turn (it has
\* one action per counted turn); run_parallel_experiments does not raise,
\* and when it returns the results hold one record per configured game and
\* completed_games + failed_games = total_games.
C23_EveryGameReported ==
    /\ \A g \in DOMAIN futures :
          Ended(g)
             => /\ "exception" \notin DOMAIN futures[g].result
                /\ futures[g].result.game_id = game_configs[g].game_id
                /\ ("error" \in DOMAIN futures[g].result) <=> (futures[g].failed_at # "none")
                /\ futures[g].failed_at = "agent"
                      => /\ Len(heap[futures[g].env].received) = futures[g].turn_count
                         /\ Len(futures[g].actions) = futures[g].turn_count
    /\ pc # "raised"
    /\ pc = "returned"
          => /\ Len(game_results) = Len(game_configs)
             /\ { game_results[i].game_id : i \in DOMAIN game_results } = DOMAIN game_configs
             /\ experiment.summary.completed_games + experiment.summary.failed_games
                   = experiment.summary.total_games

\* Games whose objects have been constructed.
Constructed == { g \in DOMAIN futures : futures[g].env # 0 }

\* The actions a game with this configuration emits in its first n turns,
\* each for the history of the turns before it.
OwnActions(config, n) ==
    [t \in 1..n |-> [agent_type |-> config.agent_type, turn |-> t - 1]]

\* C24: no two games hold the same environment or the same agent; the
\* environment of a game has been handed that game's actions and no others;
\* the actions of a game are those its own configuration and history give,
\* in every interleaving; and a step of one game changes neither the record
\* nor the objects of another.
C24_Step ==
    /\ \A g \in Constructed', h \in Constructed' :
          g # h => { futures'[g].env, futures'[g].agent }
                      \cap { futures'[h].env, futures'[h].agent } = { }
    /\ \A g \in Constructed' :
          /\ heap'[futures'[g].env].kind = "env"
          /\ heap'[futures'[g].agent].kind = "agent"
          /\ heap'[futures'[g].agent].agent_type = game_configs[g].agent_type
          /\ heap'[futures'[g].env].received = futures'[g].actions
          /\ futures'[g].actions = OwnActions(game_configs[g], Len(futures'[g].actions))
    /\ \A g \in DOMAIN futures :
          futures'[g] # futures[g]
             => \A h \in Constructed \ { g } :
                   /\ futures'[h] = futures[h]
                   /\ heap'[futures[h].env] = heap[futures[h].env]
                   /\ heap'[futures[h].agent] = heap[futures[h].agent]

C24_GamesShareNothing == [][C24_Step]_vars

\* Two games run at once: the first is in the middle of its loop when the
\* second has played all its turns.
C24_Witness ==
    /\ Len(futures) = 2
    /\ futures[1].pc = "loop"
    /\ futures[1].turn_count = 1
    /\ futures[2].pc = "close"
    /\ futures[2].turn_count = 2
    /\ Len(heap[futures[1].env].received) = 1
    /\ Len(heap[futures[2].env].received) = 2

-----------------------------------------------------------------------------
(* The Belief State Manager in persistent mode (spec.md 4.3): a pool of    *)
(* weighted candidates, updated by apply_answer after each answered        *)
(* question and rebuilt by regenerate once it is depleted.  Weights are    *)
(* exact rationals.                                                        *)

MaxUpdates == 2

\* The configured epsilon: the default and another value of (0, 0.5).
Epsilons == { EPSILON, Rat(1, 4) }

\* The pools initialize() may build from sample_candidates: not empty.
InitialPools == { { apple }, { apple, car } }

\* The ConsistencyMaps apply_answer may obtain for the asked question.
BeliefDicts ==
    UNION { [cands -> { "yes", "no" }] : cands \in SUBSET Candidates }
        \cup { (apple :> "maybe") @@ (car :> "yes") }

\* The replacement candidates regenerate may be handed by sample_candidates.
Replacements == { << >>, << banana >>, << apple, banana >>, << car, car >> }

\* initialize: weight 1 for each candidate.
initialize(candidates) == [c \in candidates |-> One]

\* Mutant of apply_answer: a candidate that does not match is eliminated.
apply_answer_eliminates(state, cd, true_answer, epsilon) ==
    [c \in DOMAIN state |->
        IF c \notin DOMAIN cd THEN state[c]
        ELSE IF cd[c] = true_answer THEN FMul(state[c], FSub(One, epsilon))
        ELSE Zero]

\* apply_answer: each candidate's weight is multiplied by (1 - epsilon) if
\* its consistency matches true_answer, else by epsilon; candidates absent
\* from the ConsistencyMap keep their weight.
apply_answer(state, cd, true_answer, epsilon) ==
    [c \in DOMAIN state |->
        IF c \notin DOMAIN cd THEN state[c]
        ELSE IF cd[c] = true_answer THEN FMul(state[c], FSub(One, epsilon))
        ELSE FMul(state[c], epsilon)]

\* depleted: some candidate's weight has fallen strictly below epsilon.
depleted(state, epsilon) == \E c \in DOMAIN state : FLt(state[c], epsilon)

\* Mutant of regenerate: a candidate at weight epsilon is removed as well.
regenerate_removes_at_epsilon(state, replacements, epsilon) ==
    [c \in { k \in DOMAIN state : FLt(epsilon, state[k]) }
              \cup { replacements[i] : i \in DOMAIN replacements } |-> One]

\* regenerate: the candidates with weight below epsilon are removed, the
\* replacement candidates not yet present are merged in, and every
\* candidate of the new pool has weight 1.
regenerate(state, replacements, epsilon) ==
    [c \in { k \in DOMAIN state : ~FLt(state[k], epsilon) }
              \cup { replacements[i] : i \in DOMAIN replacements } |-> One]

\* The game has started in persistent mode: the pool has been initialized.
InitBelief ==
    /\ IdleAgent
    /\ NoCall
    /\ NoHarness
    /\ agent_type = "EIG"
    /\ env_kind = "echo"
    /\ pc = "belief"
    /\ all_observations = << >>
    /\ samples = << >>
    /\ question_list = << >>
    /\ consistency_dict = << >>
    /\ p_in = Zero
    /\ \E candidates \in InitialPools, epsilon \in Epsilons :
          /\ belief = initialize(candidates)
          /\ belief_op = [op |-> "initialize", epsilon |-> epsilon, updates |-> 0,
                          before |-> << >>, cd |-> << >>, true_answer |-> None,
                          replacements |-> << >>]

\* The environment has answered the asked question: apply_answer.
ApplyAnswer ==
    /\ pc = "belief"
    /\ belief_op.updates < MaxUpdates
    /\ \E cd \in BeliefDicts, true_answer \in { "yes", "no" } :
          /\ belief' = apply_answer(belief, cd, true_answer, belief_op.epsilon)
          /\ belief_op' = [belief_op EXCEPT !.op = "apply_answer", !.updates = @ + 1,
                                            !.before = belief, !.cd = cd,
                                            !.true_answer = true_answer,
                                            !.replacements = << >>]
    /\ UNCHANGED << pc, setupVars, callVars, harnessVars, loopVars, game_error, attempt,
                    turnVars, tallyVars, eigVars, pureVars >>

\* The pool is depleted: regenerate.
Regenerate ==
    /\ pc = "belief"
    /\ depleted(belief, belief_op.epsilon)
    /\ \E replacements \in Replacements :
          /\ belief' = regenerate(belief, replacements, belief_op.epsilon)
          /\ belief_op' = [belief_op EXCEPT !.op = "regenerate", !.before = belief,
                                            !.cd = << >>, !.true_answer = None,
                                            !.replacements = replacements]
    /\ UNCHANGED << pc, setupVars, callVars, harnessVars, loopVars, game_error, attempt,
                    turnVars, tallyVars, eigVars, pureVars >>

NextBelief ==
    \/ ApplyAnswer
    \/ Regenerate

SpecBelief == InitBelief /\ [][NextBelief]_vars

\* The candidates of the pool before the last operation whose
\* classification matched / did not match the observed answer.
Matched ==
    { c \in DOMAIN belief_op.before :
        c \in DOMAIN belief_op.cd /\ belief_op.cd[c] = belief_op.true_answer }
Mismatched ==
    { c \in DOMAIN belief_op.before :
        c \in DOMAIN belief_op.cd /\ belief_op.cd[c] # belief_op.true_answer }

\* C25: after apply_answer the pool holds the same candidates; the weight
\* of a candidate whose classification matched the answer is its old weight
\* times (1 - epsilon), of one that did not its old weight times epsilon,
\* of one absent from the ConsistencyMap its old weight; and with epsilon
\* in (0, 0.5) every weight of the pool is positive after any sequence of
\* updates.
C25_MultiplicativeUpdate ==
    /\ FLt(Zero, belief_op.epsilon) /\ FLt(belief_op.epsilon, Rat(1, 2))
          => \A c \in DOMAIN belief : FLt(Zero, belief[c])
    /\ belief_op.op = "apply_answer"
          => /\ DOMAIN belief = DOMAIN belief_op.before
             /\ \A c \in Matched :
                   FEq(belief[c], FMul(belief_op.before[c], FSub(One, belief_op.epsilon)))
             /\ \A c \in Mismatched :
                   FEq(belief[c], FMul(belief_op.before[c], belief_op.epsilon))
             /\ \A c \in DOMAIN belief \ DOMAIN belief_op.cd :
                   belief[c] = belief_op.before[c]

\* After two answers: apple did not match either time and weighs
\* epsilon squared, car matched the last answer.
C25_Witness ==
    /\ belief_op.op = "apply_answer"
    /\ belief_op.updates = 2
    /\ apple \in Mismatched
    /\ car \in Matched
    /\ FEq(belief[apple], FMul(belief_op.epsilon, belief_op.epsilon))
    /\ FLt(belief[car], belief_op.before[car])

\* The candidates of the pool before the last operation whose weight was
\* strictly below epsilon.
BelowEpsilon ==
    { c \in DOMAIN belief_op.before : FLt(belief_op.before[c], belief_op.epsilon) }

\* C26: after regenerate the pool holds the candidates it held before
\* except those whose weight was strictly below epsilon, together with the
\* replacement candidates, and every candidate of it has weight 1.
C26_RegenerateResets ==
    belief_op.op = "regenerate"
        => /\ DOMAIN belief
                 = (DOMAIN belief_op.before \ BelowEpsilon)
                      \cup { belief_op.replacements[i] : i \in DOMAIN belief_op.replacements }
           /\ \A c \in DOMAIN belief : belief[c] = One

\* A regeneration where apple, at weight epsilon exactly, survived, car was
\* removed and banana was added.
C26_Witness ==
    /\ belief_op.op = "regenerate"
    /\ FEq(belief_op.before[apple], belief_op.epsilon)
    /\ car \in BelowEpsilon
    /\ belief_op.replacements = << apple, banana >>
    /\ DOMAIN belief = { apple, banana }

\* A request of move() or question() is about to be made.
InMoveOrQuestion(at) == at \in { "move", "question", "eig_samples", "eig_batch", "eig_score" }

\* C31: the first request of a turn is the decide request, whatever the
\* budget; move() or question() is entered only in the step in which
\* decision() returns one of its two values; and when decision() has used up
\* its retries the turn ends with the error: move() and question() have not
\* been called and the turn has no action.
C31_Step ==
    /\ (pc = "loop" /\ pc' # "loop") => pc' \in { "decision", "failed", "finished" }
    /\ (~InMoveOrQuestion(pc) /\ InMoveOrQuestion(pc'))
          => /\ pc = "decision"
             /\ decision' \in { QUESTION, GUESS }
             /\ move_calls' + question_calls' = 1
    /\ (move_calls' # move_calls \/ question_calls' # question_calls)
          => (pc = "decision" \/ pc = "step")
    /\ (pc = "decision" /\ pc' = "failed")
          => /\ attempt = DECISION_MAX_RETRIES - 1
             /\ decision' = None
             /\ move_calls' = 0
             /\ question_calls' = 0
             /\ action' = None
    /\ pc = "failed" => pc' = "failed"

C31_DecideFirst == [][C31_Step]_vars

\* The budget is used up and decision() has failed ten times: the turn has
\* ended with the error and neither move() nor question() was called.
C31_Witness ==
    /\ pc = "failed"
    /\ remaining_questions = 0
    /\ decision = None
    /\ attempt = DECISION_MAX_RETRIES - 1
    /\ move_calls = 0
    /\ question_calls = 0
    /\ action = None

\* C32: once _generate_fresh_samples has returned, the pool of the cycle is
\* not empty: a sample reply that parses to no candidate is not taken as the
\* pool, and no task scores its question against an empty pool.
C32_PoolNonEmpty ==
    /\ pc \in { "eig_batch", "eig_score", "step" } => samples # << >>
    /\ \A i \in DOMAIN workers : workers[i].status = "done" => samples # << >>

\* C33: the batch of a cycle, and with it the tasks that score its
\* questions, is never longer than the k that question() asked for.
C33_BatchWithinK ==
    pc = "eig_score" => (Len(questions) <= K /\ Len(workers) <= K)

\* EPSILON + (1 - 2*EPSILON) * yes/(yes + no) for the counts of the pool.
NoisyProbability ==
    FAdd(EPSILON,
         FMul(FSub(One, FMul(Rat(2, 1), EPSILON)),
              Rat(YesCount, YesCount + NoCount)))

\* C34: when the pool has a candidate classified "yes", one classified "no"
\* and none classified otherwise, binary_entropy is called with
\* EPSILON + (1 - 2*EPSILON) * yes/(yes + no), which lies in
\* [EPSILON, 1 - EPSILON] and so strictly between 0 and 1, and the score
\* returned is a number, not NaN, and not negative.
C34_NoisyProbabilityBounded ==
    (pc = "returned" /\ ~InvalidPresent /\ YesCount >= 1 /\ NoCount >= 1)
        => /\ entropy_calls = 2
           /\ entropy_arg = NoisyProbability
           /\ ~FLt(entropy_arg, EPSILON)
           /\ ~FLt(FSub(One, EPSILON), entropy_arg)
           /\ FLt(Zero, entropy_arg)
           /\ FLt(entropy_arg, One)
           /\ ~eig.nan
           /\ ~FLt(eig, Zero)

\* One "yes" among four candidates: the argument is 0.3 and the score is
\* positive.
C34_Witness ==
    /\ pc = "returned"
    /\ ~InvalidPresent
    /\ YesCount = 1
    /\ NoCount = 3
    /\ entropy_arg = Rat(3, 10)
    /\ FLt(Zero, eig)

\* C35: while the questions of a cycle are scored, no step changes the pool
\* or the batch; a step is the step of one running task and changes that
\* task only, so the ConsistencyMap and the score of a task that has ended
\* stay as they are; and every score is the score of the task's own map
\* against the pool the cycle drew.
C35_Step ==
    pc = "eig_score"
        => /\ samples' = samples
           /\ questions' = questions
           /\ \A i \in DOMAIN workers :
                 workers[i].status # "running" => workers'[i] = workers[i]
           /\ \A i \in DOMAIN workers, j \in DOMAIN workers :
                 (workers'[i] # workers[i] /\ workers'[j] # workers[j]) => i = j
           /\ \A i \in DOMAIN workers :
                 (workers'[i].status = "done" /\ workers'[i].reply.mapping)
                    => workers'[i].eig = _calculate_eig(workers'[i].reply.dict, samples)

C35_ScoringReadsOnly == [][C35_Step]_vars

\* Two tasks have scored their questions, the second before the first, with
\* different maps; the pool is the one the cycle drew.
C35_Witness ==
    /\ pc = "eig_score"
    /\ samples = << apple, car >>
    /\ completed = << 2, 1 >>
    /\ workers[1].status = "done"
    /\ workers[2].status = "done"
    /\ workers[1].reply.mapping
    /\ workers[2].reply.mapping
    /\ workers[1].reply.dict # workers[2].reply.dict
    /\ workers[1].eig # workers[2].eig

\* The retry loops of a turn, in the order __call__ and question() reach
\* them, and the end of the turn.
Stage(at) ==
    CASE at = "decision" -> 1
      [] at \in { "move", "question", "eig_samples" } -> 2
      [] at = "eig_batch" -> 3
      [] at = "eig_score" -> 4
      [] OTHER -> 5

InTurn(at) == Stage(at) < 5

\* The most requests the loop at `at` sends.
RequestLimit(at) ==
    CASE at = "decision" -> DECISION_MAX_RETRIES
      [] at = "move" -> MOVE_MAX_RETRIES
      [] at = "question" -> QUESTION_MAX_RETRIES
      [] at = "eig_samples" -> SAMPLES_MAX_RETRIES
      [] at = "eig_batch" -> EIG_QUESTION_MAX_RETRIES

\* C36 (one step of a turn): a step sends one request; it leaves the turn at
\* the same loop with one more request counted, below the loop's limit (10
\* for decide, move, question, sampling and each question's classification,
\* 5 for the batch), or takes it to a later loop, entered with no request
\* counted, or ends it; no loop is entered twice in a turn.
C36_Step ==
    InTurn(pc)
       => /\ Stage(pc') >= Stage(pc)
          /\ (Stage(pc') = Stage(pc)) => pc' = pc
          /\ (pc' = pc /\ pc # "eig_score")
                => (attempt' = attempt + 1 /\ attempt' < RequestLimit(pc))
          /\ (pc' # pc /\ InTurn(pc') /\ pc' # "eig_score") => attempt' = 0
          /\ (pc' # pc /\ pc' = "eig_score")
                => /\ Len(workers') = Len(questions')
                   /\ \A i \in DOMAIN workers' : workers'[i].attempt = 0
          /\ (pc' = pc /\ pc = "eig_score")
                => \E i \in DOMAIN workers :
                      /\ workers[i].status = "running"
                      /\ \A j \in DOMAIN workers \ { i } : workers'[j] = workers[j]
                      /\ \/ /\ workers'[i].status = "running"
                            /\ workers'[i].attempt = workers[i].attempt + 1
                            /\ workers'[i].attempt < CONSISTENCY_MAX_RETRIES
                         \/ workers'[i].status \in { "done", "raised" }

\* __call__ has formatted the history and computed the budget: the turn is
\* about to send its first request.
InitTurn ==
    /\ IdleAgent
    /\ NoHarness
    /\ NoBelief
    /\ NoCall
    /\ agent_type \in { "LLM", "EIG" }
    /\ env_kind \in EnvKinds
    /\ pc = "decision"
    /\ samples = << >>
    /\ question_list = << >>
    /\ consistency_dict = << >>
    /\ p_in = Zero
    /\ all_observations = Observation(env_kind, 0)

NextTurn ==
    \/ DecisionAttempt
    \/ MoveAttempt
    \/ QuestionAttempt
    \/ FreshSamplesAttempt(SampleReplies)
    \/ BatchQuestionsAttempt(BatchReplies)
    \/ ConsistencyAttempt(ConsistencyReplies)
    \/ RankQuestions

\* One turn of the agent when every request to the language model returns
\* and every thread of the executor is scheduled: a step that can be taken
\* is taken.
SpecTurn == InitTurn /\ [][NextTurn]_vars /\ WF_vars(NextTurn)

\* C36: every step of a turn is as above, and the turn ends, with the action
\* it returns or with the error.
C36_TurnTerminates ==
    /\ [][C36_Step]_vars
    /\ <>(pc \in { "step", "failed" })

\* An EIG question turn in which a classification is at its tenth request.
C36_Witness ==
    /\ agent_type = "EIG"
    /\ pc = "eig_score"
    /\ \E i \in DOMAIN workers :
          /\ workers[i].status = "running"
          /\ workers[i].attempt = CONSISTENCY_MAX_RETRIES - 1

=============================================================================
